---- MODULE Spec2Model ----
(***************************************************************************)
(* A model of pdinklag/iopp's bitwise codec: BitPacker (util/bit_packer.hpp)*)
(* and BitUnpacker (util/bit_unpacker.hpp) over 64-bit pack words.          *)
(*                                                                         *)
(* A PackWord is modelled as the set of the indices of its set bits, a     *)
(* subset of 0..63, so that every word keeps its full width: "or" is set   *)
(* union, "and" is intersection, a shift moves the indices and drops those *)
(* that leave 0..63.                                                       *)
(***************************************************************************)
EXTENDS Integers, Sequences, FiniteSets, TLC

VARIABLES
    pc,         \* "pack": the BitPacker is alive; "closed": it was destroyed;
                \* "unpack": a BitUnpacker reads the emitted words
    sink,       \* the BitPacker object (its fields, out_ being the emitted words)
    src,        \* the BitUnpacker object (its fields)
    fields,     \* history: the write calls made, in order
    reads,      \* history: the read calls made, in order
    flushes,    \* history: num_bits_written() at each explicit flush() call
    closePos,   \* history: i_ when the destructor began (-1 before)
    pattern,    \* SpecBits: the bit sequence being written
    goal,       \* SpecBits: the number of bits to write
    fstep,      \* SpecFin: "payload", "packed", "given", "done"
    count,      \* SpecFin: the argument of encode_finalizer (-1: none)
    word,       \* SpecFin: the word under construction, then given to decode_finalizer
    decoded,    \* SpecFin: the result of decode_finalizer (0 before)
    endian,     \* SpecChars: std::endian::native, "little" or "big"
    chars,      \* SpecChars: the characters of the source
    packer,     \* SpecChars: the CharPacker object
    taken,      \* SpecChars: the words taken from the packer with *it++
    emitted,    \* SpecChars: the characters the CharUnpacker wrote to its target
    repacked,   \* SpecChars: the words packed again from the emitted characters
    input,      \* SpecBlocks, SpecGets, SpecFile: the input stream
    blocks,     \* SpecBlocks: the OverlappingBlocks object
    fileop,     \* SpecGets, SpecFile: the last call made on the input stream
    iter,       \* SpecIter: the StreamInputIterator over the input stream
    seen,       \* SpecIter: history: the chars read through the iterator
    output,     \* SpecOut: the FileOutputStream object and its file
    passed      \* SpecOut: history: the chars passed to put and write

codecVars == <<pc, sink, src, fields, reads, flushes, closePos, pattern, goal>>

finVars == <<fstep, count, word, decoded>>

charVars == <<endian, chars, packer, taken, emitted, repacked>>

streamVars == <<iter, seen, output, passed>>

blockVars == <<input, blocks, fileop, streamVars>>

vars == <<pc, sink, src, fields, reads, flushes, closePos, pattern, goal,
          fstep, count, word, decoded,
          endian, chars, packer, taken, emitted, repacked,
          input, blocks, fileop, iter, seen, output, passed>>

----------------------------------------------------------------------------
(* util/pack_word.hpp *)

PACK_WORD_BITS == 64

BitIdx == 0 .. (PACK_WORD_BITS - 1)

PACK_WORD_MAX == BitIdx

----------------------------------------------------------------------------
(* 64-bit unsigned arithmetic on words *)

Or(x, y) == x \cup y

And(x, y) == x \cap y

Not(x) == BitIdx \ x

\* x << k for 0 <= k < 64 (bits shifted past bit 63 are lost)
Shl(x, k) == {b + k : b \in {c \in x : c + k < PACK_WORD_BITS}}

\* x >> k for 0 <= k < 64
Shr(x, k) == {b - k : b \in {c \in x : c >= k}}

Min(S) == CHOOSE m \in S : \A o \in S : m <= o

Max(S) == CHOOSE m \in S : \A o \in S : m >= o

\* x - 1 modulo 2^64
Dec(x) == IF x = {} THEN BitIdx ELSE (x \ {Min(x)}) \cup (0 .. (Min(x) - 1))

RECURSIVE ToWord(_)
\* the word holding the natural number n
ToWord(n) ==
    IF n = 0 THEN {}
    ELSE (IF n % 2 = 1 THEN {0} ELSE {}) \cup {b + 1 : b \in ToWord(n \div 2)}

RECURSIVE ToNat(_)
\* the natural number a (short) word holds
ToNat(x) == IF x = {} THEN 0 ELSE 2 ^ Max(x) + ToNat(x \ {Max(x)})

RECURSIVE bit_width(_)
\* std::bit_width
bit_width(n) == IF n = 0 THEN 0 ELSE 1 + bit_width(n \div 2)

----------------------------------------------------------------------------
(* util/bits.hpp *)

set_bit(i) == Shl({0}, i)

\* faulty variant of low_mask: the mask is one bit short
low_mask_short(num) == Not(Shl(PACK_WORD_MAX, num - 1))

low_mask(num) == Not(Shl(Shl(PACK_WORD_MAX, num - 1), 1))

extract_low(v, num) == And(v, low_mask(num))

----------------------------------------------------------------------------
(* util/bit_packer.hpp *)

FINALIZER_BITS == bit_width(PACK_WORD_BITS - 1)

PAYLOAD_BITS == PACK_WORD_BITS - FINALIZER_BITS

FINALIZER_LSH == PAYLOAD_BITS - 1

\* faulty variant of encode_finalizer: shifted to the top FINALIZER_BITS bits
encode_finalizer_top(finalizer) == Shl(Dec(ToWord(finalizer)), PAYLOAD_BITS)

encode_finalizer(finalizer) == Shl(Dec(ToWord(finalizer)), FINALIZER_LSH)

\* BitPacker(out, finalize)
NewPacker(finalize) ==
    [pack_ |-> {}, i_ |-> 0, num_bits_written_ |-> 0, out_ |-> <<>>,
     finalize_ |-> finalize, was_ever_flushed_ |-> FALSE]

reset(p) == [p EXCEPT !.pack_ = {}, !.i_ = 0]

\* faulty variant of flush: emits the word also when it is empty
flush_always(p) ==
    reset([p EXCEPT !.was_ever_flushed_ = TRUE, !.out_ = Append(@, p.pack_)])

\* faulty variant of flush: the unwritten bits of the emitted word are set
flush_pad_ones(p) ==
    IF p.i_ # 0
    THEN reset([p EXCEPT !.was_ever_flushed_ = TRUE,
                         !.out_ = Append(@, Or(p.pack_, p.i_ .. (PACK_WORD_BITS - 1)))])
    ELSE p

flush(p) ==
    IF p.i_ # 0
    THEN reset([p EXCEPT !.was_ever_flushed_ = TRUE, !.out_ = Append(@, p.pack_)])
    ELSE p

\* -bit converted to uintmax_t: all ones for true, 0 for false
NegBit(bit) == IF bit THEN PACK_WORD_MAX ELSE {}

\* faulty variant of write_bit: a full word is kept until the next write
write_bit_late(p, bit) ==
    LET q == [p EXCEPT !.pack_ = Or(@, And(set_bit(p.i_), NegBit(bit))),
                       !.num_bits_written_ = @ + 1,
                       !.i_ = @ + 1]
    IN  IF q.i_ > PACK_WORD_BITS THEN flush(q) ELSE q

\* write(bool)
write_bit(p, bit) ==
    LET q == [p EXCEPT !.pack_ = Or(@, And(set_bit(p.i_), NegBit(bit))),
                       !.num_bits_written_ = @ + 1,
                       !.i_ = @ + 1]
    IN  IF q.i_ >= PACK_WORD_BITS THEN flush(q) ELSE q

RECURSIVE write_loop(_, _, _)
\* the while loop of write(uintmax_t, size_t): <<packer, bits, num>> after it
write_loop(p, bits, num) ==
    IF p.i_ + num > PACK_WORD_BITS
    THEN LET fit == PACK_WORD_BITS - p.i_
             q   == [p EXCEPT !.pack_ = Or(@, Shl(extract_low(bits, fit), p.i_)),
                              !.i_ = PACK_WORD_BITS]
         IN  write_loop(flush(q), Shr(bits, fit), num - fit)
    ELSE <<p, bits, num>>

\* faulty variant of write: the position is set to, not advanced by, the
\* number of bits placed
write_set_pos(p, bits, num) ==
    LET l == write_loop(p, bits, num)
        q == l[1]
        r == IF l[3] # 0
             THEN LET s == [q EXCEPT !.pack_ = Or(@, Shl(extract_low(l[2], l[3]), q.i_)),
                                     !.i_ = l[3]]
                  IN  IF s.i_ >= PACK_WORD_BITS THEN flush(s) ELSE s
             ELSE q
    IN  [r EXCEPT !.num_bits_written_ = @ + num]

\* faulty variant of write: counts only the bits placed after the loop
write_count_rest(p, bits, num) ==
    LET l == write_loop(p, bits, num)
        q == l[1]
        r == IF l[3] # 0
             THEN LET s == [q EXCEPT !.pack_ = Or(@, Shl(extract_low(l[2], l[3]), q.i_)),
                                     !.i_ = @ + l[3]]
                  IN  IF s.i_ >= PACK_WORD_BITS THEN flush(s) ELSE s
             ELSE q
    IN  [r EXCEPT !.num_bits_written_ = @ + l[3]]

\* faulty variant of write: the bits placed after the loop are not cut to num
write_uncut(p, bits, num) ==
    LET l == write_loop(p, bits, num)
        q == l[1]
        r == IF l[3] # 0
             THEN LET s == [q EXCEPT !.pack_ = Or(@, Shl(l[2], q.i_)),
                                     !.i_ = @ + l[3]]
                  IN  IF s.i_ >= PACK_WORD_BITS THEN flush(s) ELSE s
             ELSE q
    IN  [r EXCEPT !.num_bits_written_ = @ + num]

\* write(uintmax_t bits, size_t num), num > 0
write(p, bits, num) ==
    LET l == write_loop(p, bits, num)
        q == l[1]
        r == IF l[3] # 0
             THEN LET s == [q EXCEPT !.pack_ = Or(@, Shl(extract_low(l[2], l[3]), q.i_)),
                                     !.i_ = @ + l[3]]
                  IN  IF s.i_ >= PACK_WORD_BITS THEN flush(s) ELSE s
             ELSE q
    IN  [r EXCEPT !.num_bits_written_ = @ + num]

\* faulty variant of destroy: encodes the count PACK_WORD_BITS for position 0
destroy_encode_count(p) ==
    LET non_empty == p.was_ever_flushed_ \/ p.i_ > 0
    IN  IF p.finalize_ /\ non_empty
        THEN LET finalizer == encode_finalizer(IF p.i_ > 0 THEN p.i_ ELSE PACK_WORD_BITS)
                 q == IF p.i_ >= PAYLOAD_BITS THEN flush(p) ELSE p
             IN  flush([q EXCEPT !.pack_ = Or(@, finalizer), !.i_ = PACK_WORD_BITS])
        ELSE flush(p)

\* faulty variant of destroy: the finalizer is written whatever finalize_ says
destroy_finalizing(p) ==
    LET non_empty == p.was_ever_flushed_ \/ p.i_ > 0
    IN  IF non_empty
        THEN LET finalizer == encode_finalizer(p.i_)
                 q == IF p.i_ >= PAYLOAD_BITS THEN flush(p) ELSE p
             IN  flush([q EXCEPT !.pack_ = Or(@, finalizer), !.i_ = PACK_WORD_BITS])
        ELSE flush(p)

\* faulty variant of destroy: the finalizer always goes into the word in progress
destroy_unmoved(p) ==
    LET non_empty == p.was_ever_flushed_ \/ p.i_ > 0
    IN  IF p.finalize_ /\ non_empty
        THEN LET finalizer == encode_finalizer(p.i_)
             IN  flush([p EXCEPT !.pack_ = Or(@, finalizer), !.i_ = PACK_WORD_BITS])
        ELSE flush(p)

\* faulty variant of destroy: moves the finalizer to a new word one bit too late
destroy_strict(p) ==
    LET non_empty == p.was_ever_flushed_ \/ p.i_ > 0
    IN  IF p.finalize_ /\ non_empty
        THEN LET finalizer == encode_finalizer(p.i_)
                 q == IF p.i_ > PAYLOAD_BITS THEN flush(p) ELSE p
             IN  flush([q EXCEPT !.pack_ = Or(@, finalizer), !.i_ = PACK_WORD_BITS])
        ELSE flush(p)

\* ~BitPacker()
destroy(p) ==
    LET non_empty == p.was_ever_flushed_ \/ p.i_ > 0
    IN  IF p.finalize_ /\ non_empty
        THEN LET finalizer == encode_finalizer(p.i_)
                 q == IF p.i_ >= PAYLOAD_BITS THEN flush(p) ELSE p
             IN  flush([q EXCEPT !.pack_ = Or(@, finalizer), !.i_ = PACK_WORD_BITS])
        ELSE flush(p)

\* faulty variant of write_call: the assertion is missing
write_call_unchecked(p, bits, num) == [failed |-> FALSE, p |-> write(p, bits, num)]

\* a call of write(uintmax_t bits, size_t num) with any num: assert(num > 0)
\* ends the program before the body runs
write_call(p, bits, num) ==
    IF num > 0 THEN [failed |-> FALSE, p |-> write(p, bits, num)]
    ELSE [failed |-> TRUE, p |-> p]

pack_pos(p) == p.i_ % PACK_WORD_BITS

num_bits_written(p) == p.num_bits_written_

----------------------------------------------------------------------------
(* util/bit_unpacker.hpp *)

\* faulty variant of decode_finalizer: takes the finalizer from one place too high
decode_finalizer_high(x) ==
    LET f == (ToNat(Shr(x, PAYLOAD_BITS)) + 1) % PACK_WORD_BITS
    IN  IF f # 0 THEN f ELSE PACK_WORD_BITS

decode_finalizer(x) ==
    LET f == (ToNat(Shr(x, FINALIZER_LSH)) + 1) % PACK_WORD_BITS
    IN  IF f # 0 THEN f ELSE PACK_WORD_BITS

\* The input iterators in_ and end_ are positions 1 .. Len(words) + 1 in the
\* range `words`; an end_ of 0 is the value-initialized iterator of the
\* one-argument constructor, which no position of the range equals.
\* pack_ and next_ are not initialized by the constructor (next_ is, when the
\* range is not empty), and final_avail_ is not when the range is not empty:
\* they hold `junk`, whatever the memory held. Dereferencing in_ past the last
\* word of the range is undefined: it yields `junk` and sets the history flag ub.
Deref(u, junk) == IF u.in_ \in 1 .. Len(u.words) THEN u.words[u.in_] ELSE junk

\* faulty variant of BitUnpacker: the first word is taken without a look at end
BitUnpackerUnguarded(words, in, end, junk) ==
    LET u == [words |-> words, ub |-> FALSE, pack_ |-> junk, next_ |-> junk,
              i_ |-> PACK_WORD_BITS, in_ |-> in, end_ |-> end,
              final_ |-> FALSE, final_avail_ |-> 0]
    IN  [u EXCEPT !.next_ = Deref(u, junk),
                  !.ub = in \notin 1 .. Len(words),
                  !.in_ = @ + 1,
                  !.final_ = FALSE]

BitUnpacker(words, in, end, junk) ==
    LET u == [words |-> words, ub |-> FALSE, pack_ |-> junk, next_ |-> junk,
              i_ |-> PACK_WORD_BITS, in_ |-> in, end_ |-> end,
              final_ |-> FALSE, final_avail_ |-> 0]
    IN  IF in = end
        THEN [u EXCEPT !.final_ = TRUE, !.final_avail_ = 0]
        ELSE [u EXCEPT !.next_ = Deref(u, junk),
                       !.ub = in \notin 1 .. Len(words),
                       !.in_ = @ + 1,
                       !.final_ = FALSE]

\* faulty variant of advance: takes every last word for an extra word
advance_early(u, junk) ==
    LET a == [u EXCEPT !.pack_ = u.next_, !.i_ = 0]
    IN  IF a.final_ THEN a
        ELSE IF a.in_ = a.end_
        THEN [a EXCEPT !.final_avail_ = decode_finalizer(a.pack_), !.final_ = TRUE]
        ELSE LET b == [a EXCEPT !.next_ = Deref(a, junk),
                                !.ub = @ \/ a.in_ \notin 1 .. Len(a.words),
                                !.in_ = @ + 1]
                 avail == decode_finalizer(b.next_)
             IN  IF b.in_ = b.end_
                 THEN [b EXCEPT !.final_avail_ = avail, !.final_ = TRUE]
                 ELSE b

\* faulty variant of advance: takes the last word for an extra word one bit too late
advance_strict(u, junk) ==
    LET a == [u EXCEPT !.pack_ = u.next_, !.i_ = 0]
    IN  IF a.final_ THEN a
        ELSE IF a.in_ = a.end_
        THEN [a EXCEPT !.final_avail_ = decode_finalizer(a.pack_), !.final_ = TRUE]
        ELSE LET b == [a EXCEPT !.next_ = Deref(a, junk),
                                !.ub = @ \/ a.in_ \notin 1 .. Len(a.words),
                                !.in_ = @ + 1]
                 avail == decode_finalizer(b.next_)
             IN  IF b.in_ = b.end_ /\ avail > PAYLOAD_BITS
                 THEN [b EXCEPT !.final_avail_ = avail, !.final_ = TRUE]
                 ELSE b

advance(u, junk) ==
    LET a == [u EXCEPT !.pack_ = u.next_, !.i_ = 0]
    IN  IF a.final_ THEN a
        ELSE IF a.in_ = a.end_
        THEN [a EXCEPT !.final_avail_ = decode_finalizer(a.pack_), !.final_ = TRUE]
        ELSE LET b == [a EXCEPT !.next_ = Deref(a, junk),
                                !.ub = @ \/ a.in_ \notin 1 .. Len(a.words),
                                !.in_ = @ + 1]
                 avail == decode_finalizer(b.next_)
             IN  IF b.in_ = b.end_ /\ avail >= PAYLOAD_BITS
                 THEN [b EXCEPT !.final_avail_ = avail, !.final_ = TRUE]
                 ELSE b

\* bool read(): <<unpacker, bit>>
read_bit(u, junk) ==
    LET a == IF u.i_ >= PACK_WORD_BITS THEN advance(u, junk) ELSE u
    IN  <<[a EXCEPT !.i_ = @ + 1], And(a.pack_, set_bit(a.i_)) # {}>>

RECURSIVE read_loop(_, _, _, _, _)
\* the while loop of read(size_t): <<unpacker, bits, num, j>> after it
read_loop(u, bits, num, j, junk) ==
    IF u.i_ + num > PACK_WORD_BITS
    THEN LET avail == PACK_WORD_BITS - u.i_
         IN  read_loop(advance(u, junk),
                       Or(bits, Shl(extract_low(Shr(u.pack_, u.i_), avail), j)),
                       num - avail, j + avail, junk)
    ELSE <<u, bits, num, j>>

\* faulty variant of read: the bits of the last word are placed at bit 0
read_low(u, num, junk) ==
    LET a == IF u.i_ >= PACK_WORD_BITS THEN advance(u, junk) ELSE u
        l == read_loop(a, {}, num, 0, junk)
        b == l[1]
    IN  IF l[3] # 0
        THEN <<[b EXCEPT !.i_ = @ + l[3]],
               Or(l[2], extract_low(Shr(b.pack_, b.i_), l[3]))>>
        ELSE <<b, l[2]>>

\* PackWord read(size_t num), num > 0: <<unpacker, bits>>
read(u, num, junk) ==
    LET a == IF u.i_ >= PACK_WORD_BITS THEN advance(u, junk) ELSE u
        l == read_loop(a, {}, num, 0, junk)
        b == l[1]
    IN  IF l[3] # 0
        THEN <<[b EXCEPT !.i_ = @ + l[3]],
               Or(l[2], Shl(extract_low(Shr(b.pack_, b.i_), l[3]), l[4]))>>
        ELSE <<b, l[2]>>

\* a call of read(size_t num) with any num: assert(num > 0) ends the program
\* before the body runs
read_call(u, num, junk) ==
    IF num > 0
    THEN LET r == read(u, num, junk) IN [failed |-> FALSE, u |-> r[1], bits |-> r[2]]
    ELSE [failed |-> TRUE, u |-> u, bits |-> {}]

\* faulty variant of pack_pos: the position without the reduction modulo the width
unpacker_pack_pos_raw(u) == u.i_

unpacker_pack_pos(u) == u.i_ % PACK_WORD_BITS

\* faulty variant of good: one bit too many
good_inclusive(u) == ~u.final_ \/ u.i_ <= u.final_avail_

good(u) == ~u.final_ \/ u.i_ < u.final_avail_

eof(u) == u.final_ /\ u.i_ >= u.final_avail_

----------------------------------------------------------------------------
(* stream_input_iterator.hpp and the iterators of a character container    *)

\* A char is the number 0..255 its object representation holds.
\* A char input iterator is a record. kind "range": an iterator of the
\* container `source`, pos its index (Len(source) + 1: the end, 0: a
\* value-initialized iterator). kind "stream": a StreamInputIterator linked to
\* stream_ ("in": the stream holding `source`, "null": none) with its eof_ and
\* current_; pos and failed are the stream's read position and fail state (the
\* stream is read through this iterator only). over is history: the number of
\* *it++ made on an iterator that was at the end already.
range_iterator(source, pos) ==
    [kind |-> "range", source |-> source, pos |-> pos, stream_ |-> "null",
     eof_ |-> FALSE, current_ |-> 0, failed |-> FALSE, over |-> 0]

\* StreamInputIterator::advance(): current_ = stream_->get(), eof_ from !*stream_
stream_advance(it) ==
    IF ~it.failed /\ it.pos <= Len(it.source)
    THEN [it EXCEPT !.current_ = it.source[it.pos], !.pos = @ + 1, !.eof_ = FALSE]
    ELSE [it EXCEPT !.failed = TRUE, !.eof_ = TRUE, !.current_ = 0]

\* StreamInputIterator(stream)
StreamInputIterator(source) ==
    stream_advance([kind |-> "stream", source |-> source, pos |-> 1, stream_ |-> "in",
                    eof_ |-> FALSE, current_ |-> 0, failed |-> FALSE, over |-> 0])

\* StreamInputIterator::end(stream)
stream_end(source) ==
    [kind |-> "stream", source |-> source, pos |-> 1, stream_ |-> "in",
     eof_ |-> TRUE, current_ |-> 0, failed |-> FALSE, over |-> 0]

\* StreamInputIterator()
stream_invalid ==
    [kind |-> "stream", source |-> <<>>, pos |-> 1, stream_ |-> "null",
     eof_ |-> FALSE, current_ |-> 0, failed |-> FALSE, over |-> 0]

\* a == b
iterator_eq(a, b) ==
    IF a.kind = "stream" THEN a.stream_ = b.stream_ /\ a.eof_ = b.eof_
    ELSE a.pos = b.pos

\* is `it` at the end of its source
at_end(it) == IF it.kind = "stream" THEN it.eof_ ELSE it.pos > Len(it.source)

\* *it++ : <<iterator, char>>. Past the end of a container the char is
\* undefined: junkc, whatever the memory holds.
post_inc(it, junkc) ==
    LET over == it.over + (IF at_end(it) THEN 1 ELSE 0)
    IN  IF it.kind = "stream"
        THEN <<[stream_advance(it) EXCEPT !.over = over], it.current_>>
        ELSE <<[it EXCEPT !.pos = @ + 1, !.over = over],
               IF it.pos \in 1 .. Len(it.source) THEN it.source[it.pos] ELSE junkc>>

----------------------------------------------------------------------------
(* util/char_packer.hpp, util/char_unpacker.hpp *)

\* sizeof(PackWord)
chars_per_int == 8

\* the bits of a char
CharBits == PACK_WORD_BITS \div chars_per_int

\* the lowest bit of the PackWord that the char at offset a of its object
\* representation holds, on a host of endianness e
Place(a, e) == IF e = "little" THEN a * CharBits ELSE (chars_per_int - 1 - a) * CharBits

\* the bits of each char
CharWord == [c \in 0 .. (2 ^ CharBits - 1) |-> ToWord(c)]

\* ((char*)&w)[a] = c
store(w, a, c, e) ==
    LET at == Place(a, e)
    IN  {b \in w : b < at \/ b >= at + CharBits} \cup {at + i : i \in CharWord[c]}

RECURSIVE CharFrom(_, _, _)
\* the number that the bits at, at + 1, ... of w hold, from bit at + i on
CharFrom(w, at, i) ==
    IF i = CharBits THEN 0
    ELSE (IF at + i \in w THEN 2 ^ i ELSE 0) + CharFrom(w, at, i + 1)

\* ((char*)&w)[a]
load(w, a, e) == CharFrom(w, Place(a, e), 0)

\* the offset p points to in turn i of the loops: on a little-endian host p
\* starts at the last char and is decremented, else at the first and incremented
Offset(i, e) == IF e = "little" THEN chars_per_int - 1 - i ELSE i

\* faulty variant of pack_chars: p starts at the first char on every host
RECURSIVE pack_chars_native(_, _, _, _)
pack_chars_native(c, i, e, junkc) ==
    IF i < chars_per_int
    THEN LET r == post_inc(c.in_, junkc)
         IN  pack_chars_native([c EXCEPT !.current_ = store(@, i, r[2], e), !.in_ = r[1]],
                               i + 1, e, junkc)
    ELSE c

\* the loop of CharPacker::advance() from turn i on
RECURSIVE pack_chars(_, _, _, _)
pack_chars(c, i, e, junkc) ==
    IF i < chars_per_int
    THEN LET r == post_inc(c.in_, junkc)
         IN  pack_chars([c EXCEPT !.current_ = store(@, Offset(i, e), r[2], e), !.in_ = r[1]],
                        i + 1, e, junkc)
    ELSE c

\* faulty variant of char_packer_advance: looks for the end again after
\* the chars of the word were read
char_packer_advance_early(c, e, junkc) ==
    LET reached_end == iterator_eq(c.in_, c.end_)
    IN  IF reached_end THEN [c EXCEPT !.reached_end_ = TRUE]
        ELSE LET d == pack_chars(c, 0, e, junkc)
             IN  [d EXCEPT !.reached_end_ = iterator_eq(d.in_, d.end_)]

\* CharPacker::advance()
char_packer_advance(c, e, junkc) ==
    LET reached_end == iterator_eq(c.in_, c.end_)
    IN  IF reached_end THEN [c EXCEPT !.reached_end_ = TRUE]
        ELSE pack_chars([c EXCEPT !.reached_end_ = FALSE], 0, e, junkc)

\* CharPacker(in, end); current_ is not initialized: junk
CharPacker(in, end, e, junk, junkc) ==
    char_packer_advance([in_ |-> in, end_ |-> end, current_ |-> junk,
                         reached_end_ |-> FALSE], e, junkc)

\* CharPacker(), for a source iterator of the kind of `it`
CharPackerEnd(it) ==
    LET none == IF it.kind = "stream" THEN stream_invalid ELSE range_iterator(<<>>, 0)
    IN  [in_ |-> none, end_ |-> none, current_ |-> {}, reached_end_ |-> TRUE]

\* CharPacker::operator==
char_packer_eq(c, other) ==
    (c.reached_end_ /\ other.reached_end_) \/ iterator_eq(c.in_, other.in_)

\* *it++ on a CharPacker: <<packer, word>>
char_packer_post_inc(c, e, junkc) == <<char_packer_advance(c, e, junkc), c.current_>>

\* std::copy(c, {}, std::back_inserter(v)): the words v receives. Once a
\* container's end was passed the packer never meets its end: the words
\* after the first one built from undefined chars are left out.
RECURSIVE copy_words(_, _, _)
copy_words(c, e, junkc) ==
    IF char_packer_eq(c, CharPackerEnd(c.in_)) THEN <<>>
    ELSE IF c.in_.kind = "range" /\ c.in_.over > 0 THEN <<c.current_>>
    ELSE LET r == char_packer_post_inc(c, e, junkc)
         IN  <<r[2]>> \o copy_words(r[1], e, junkc)

\* faulty variant of char_unpacker_inc: emits the chars as they lie in memory
char_unpacker_inc_native(out, item, e) ==
    out \o [i \in 1 .. chars_per_int |-> load(item, i - 1, e)]

\* CharUnpacker::operator++() with **this = item: the chars appended to the target
char_unpacker_inc(out, item, e) ==
    out \o [i \in 1 .. chars_per_int |-> load(item, Offset(i - 1, e), e)]

----------------------------------------------------------------------------
(* bitwise_io.hpp *)

\* A BitPacker over a CharUnpacker, bitwise_output_to(out): the chars the
\* target has received once the packer has emitted `words`, after `out`
RECURSIVE unpack_words(_, _, _)
unpack_words(out, words, e) ==
    IF words = <<>> THEN out
    ELSE unpack_words(char_unpacker_inc(out, Head(words), e), Tail(words), e)

\* BitUnpacker(c, CharPacker()) over a CharPacker c: the unpacker's range is
\* the words c yields until it equals CharPacker(), its in_ the number of
\* words taken from c plus one, and its end_ the position at which c equals
\* CharPacker()
BitUnpackerOver(c, e, junk, junkc) ==
    LET words == copy_words(c, e, junkc)
    IN  BitUnpacker(words, 1, Len(words) + 1, junk)

\* bitwise_input_from(begin, end): BitUnpacker(CharPacker(begin, end), {})
bitwise_input_from(begin, end, e, junk, junkc) ==
    BitUnpackerOver(CharPacker(begin, end, e, junk, junkc), e, junk, junkc)

\* bitwise_input_from(in) for a stream holding `source`: the one-argument
\* BitUnpacker(in) is BitUnpacker(in, {}), and {} is CharPacker() here
bitwise_input_from_stream(source, e, junk, junkc) ==
    BitUnpackerOver(CharPacker(StreamInputIterator(source), stream_end(source), e, junk, junkc),
                    e, junk, junkc)

----------------------------------------------------------------------------
(* Bounds and inputs *)

\* the most write and flush calls made on one packer (Spec)
MaxCalls == 4

\* the most bits written bit by bit (SpecBits)
MaxBits == 130

\* 0b1011 repeated in every nibble
Nibbles == {b \in BitIdx : b % 4 # 2}

\* the field widths written with write(bits, num)
Widths == {4, PAYLOAD_BITS - 1, PAYLOAD_BITS, PACK_WORD_BITS}

\* the values written with width num: the low num bits of Nibbles (for a
\* whole word: all ones) and, for the narrowest field, a value with bits set
\* beyond its width
ValuesFor(num) ==
    IF num = PACK_WORD_BITS THEN {PACK_WORD_MAX}
    ELSE {And(Nibbles, 0 .. (num - 1))}
             \cup (IF num = 4 THEN {PACK_WORD_MAX} ELSE {})

\* what uninitialized memory may hold
Junk == {{}, PACK_WORD_MAX}

\* the bit sequences written bit by bit: bit k is set iff k % 6 is in the pattern
BitPatterns == {{}, 0 .. 5, {1, 3, 4}}

PatternBit(k) == (k % 6) \in pattern

NoUnpacker == BitUnpacker(<<>>, 1, 1, {})

\* what the next read of u may find in undefined memory: a read makes at most
\* one advance(), which dereferences in_ unless the unpacker is final or at end_
JunkFor(u) ==
    IF u.final_ \/ u.in_ = u.end_ \/ u.in_ \in 1 .. Len(u.words) THEN {{}} ELSE Junk

----------------------------------------------------------------------------
(* The test harness: a packer writing to std::back_inserter(target), then a *)
(* sized unpacker over target.begin(), target.end()  (test/test.cpp)       *)

\* the components a specification does not use stay as constructed
IdleFin == fstep = "idle" /\ count = -1 /\ word = {} /\ decoded = 0

IdleChars ==
    /\ endian = "little"
    /\ chars = <<>>
    /\ packer = <<>>
    /\ taken = <<>>
    /\ emitted = <<>>
    /\ repacked = [done |-> FALSE, words |-> <<>>]

\* no call was made on the input stream
NoCall == [op |-> "none", calls |-> 0, used |-> {}, num |-> 0, got |-> <<>>,
           x |-> 0, pre |-> 0, was_good |-> TRUE, target |-> 0]

IdleStreams == iter = <<>> /\ seen = <<>> /\ output = <<>> /\ passed = <<>>

IdleBlocks == input = <<>> /\ blocks = <<>> /\ fileop = NoCall /\ IdleStreams

IdleCodec ==
    /\ pc = "idle"
    /\ sink = NewPacker(TRUE)
    /\ src = NoUnpacker
    /\ fields = <<>>
    /\ reads = <<>>
    /\ flushes = <<>>
    /\ closePos = -1
    /\ pattern = {}
    /\ goal = 0

Init ==
    /\ IdleFin /\ IdleChars /\ IdleBlocks
    /\ pc = "pack"
    /\ sink = NewPacker(TRUE)
    /\ src = NoUnpacker
    /\ fields = <<>>
    /\ reads = <<>>
    /\ flushes = <<>>
    /\ closePos = -1
    /\ pattern = {}
    /\ goal = 0

\* the calls made on the packer so far
Calls == Len(fields) + Len(flushes)

\* sink.write(bit)
WriteBit(bit) ==
    /\ pc = "pack"
    /\ Calls < MaxCalls
    /\ sink' = write_bit(sink, bit)
    /\ fields' = Append(fields, [kind |-> "bit", num |-> 1,
                                 value |-> IF bit THEN {0} ELSE {}])
    /\ UNCHANGED <<finVars, charVars, blockVars, pc, src, reads, flushes, closePos, pattern, goal>>

\* sink.write(bits, num)
WriteBits(bits, num) ==
    /\ pc = "pack"
    /\ Calls < MaxCalls
    /\ num > 0
    /\ sink' = write(sink, bits, num)
    /\ fields' = Append(fields, [kind |-> "bits", num |-> num, value |-> bits])
    /\ UNCHANGED <<finVars, charVars, blockVars, pc, src, reads, flushes, closePos, pattern, goal>>

\* sink.flush()
Flush ==
    /\ pc = "pack"
    /\ Calls < MaxCalls
    /\ sink' = flush(sink)
    /\ flushes' = Append(flushes, num_bits_written(sink))
    /\ UNCHANGED <<finVars, charVars, blockVars, pc, src, fields, reads, closePos, pattern, goal>>

\* the packer goes out of scope
Destroy ==
    /\ pc = "pack"
    /\ sink' = destroy(sink)
    /\ closePos' = sink.i_
    /\ pc' = "closed"
    /\ UNCHANGED <<finVars, charVars, blockVars, src, fields, reads, flushes, pattern, goal>>

\* auto src = BitUnpacker(target.begin(), target.end())
Open(junk) ==
    /\ pc = "closed"
    /\ src' = BitUnpacker(sink.out_, 1, Len(sink.out_) + 1, junk)
    /\ pc' = "unpack"
    /\ UNCHANGED <<finVars, charVars, blockVars, sink, fields, reads, flushes, closePos, pattern, goal>>

\* src.read(), for a field written with write(bit)
ReadBit(junk) ==
    /\ pc = "unpack"
    /\ Len(reads) < Len(fields)
    /\ fields[Len(reads) + 1].kind = "bit"
    /\ LET r == read_bit(src, junk)
       IN  /\ src' = r[1]
           /\ reads' = Append(reads, [kind |-> "bit", num |-> 1,
                                      value |-> IF r[2] THEN {0} ELSE {},
                                      eofBefore |-> eof(src),
                                      goodBefore |-> good(src)])
    /\ UNCHANGED <<finVars, charVars, blockVars, pc, sink, fields, flushes, closePos, pattern, goal>>

\* src.read(num), for a field written with write(bits, num)
ReadBits(junk) ==
    /\ pc = "unpack"
    /\ Len(reads) < Len(fields)
    /\ fields[Len(reads) + 1].kind = "bits"
    /\ LET num == fields[Len(reads) + 1].num
           r == read(src, num, junk)
       IN  /\ src' = r[1]
           /\ reads' = Append(reads, [kind |-> "bits", num |-> num,
                                      value |-> r[2],
                                      eofBefore |-> eof(src),
                                      goodBefore |-> good(src)])
    /\ UNCHANGED <<finVars, charVars, blockVars, pc, sink, fields, flushes, closePos, pattern, goal>>

Next ==
    \/ \E bit \in BOOLEAN : WriteBit(bit)
    \/ \E num \in Widths : \E bits \in ValuesFor(num) : WriteBits(bits, num)
    \/ Flush
    \/ Destroy
    \/ \E junk \in Junk : Open(junk)
    \/ \E junk \in JunkFor(src) : ReadBit(junk)
    \/ \E junk \in JunkFor(src) : ReadBits(junk)

Spec == Init /\ [][Next]_vars

----------------------------------------------------------------------------
(* Bit by bit: goal bits of a pattern are written with write(bit), the      *)
(* packer is destroyed, and the reader loops  while(src.good()) src.read()  *)
(* (test/test.cpp, check_ones_onebyone and check_ones_whilegood)            *)

InitBits ==
    /\ IdleFin /\ IdleChars /\ IdleBlocks
    /\ pc = "pack"
    /\ sink = NewPacker(TRUE)
    /\ src = NoUnpacker
    /\ fields = <<>>
    /\ reads = <<>>
    /\ flushes = <<>>
    /\ closePos = -1
    /\ pattern \in BitPatterns
    /\ goal \in 0 .. MaxBits

\* sink.write(bit) with the next bit of the pattern
WriteNext ==
    /\ pc = "pack"
    /\ num_bits_written(sink) < goal
    /\ sink' = write_bit(sink, PatternBit(num_bits_written(sink)))
    /\ UNCHANGED <<finVars, charVars, blockVars, pc, src, fields, reads, flushes, closePos, pattern, goal>>

\* the packer goes out of scope once all bits are written
DestroyBits ==
    /\ num_bits_written(sink) = goal
    /\ Destroy

\* one turn of  while(src.good()) src.read()
ReadNext(junk) ==
    /\ pc = "unpack"
    /\ good(src)
    /\ LET r == read_bit(src, junk)
       IN  /\ src' = r[1]
           /\ reads' = Append(reads, [kind |-> "bit", num |-> 1,
                                      value |-> IF r[2] THEN {0} ELSE {},
                                      eofBefore |-> eof(src),
                                      goodBefore |-> good(src)])
    /\ UNCHANGED <<finVars, charVars, blockVars, pc, sink, fields, flushes, closePos, pattern, goal>>

NextBits ==
    \/ WriteNext
    \/ DestroyBits
    \/ \E junk \in Junk : Open(junk)
    \/ \E junk \in JunkFor(src) : ReadNext(junk)

SpecBits == InitBits /\ [][NextBits]_vars

----------------------------------------------------------------------------
(* Calls outside the contract: goal bits of a pattern are written bit by    *)
(* bit or four at a time, write(bits, 0) may be called, the packer is       *)
(* destroyed, and the reader calls read(), read(4) and read(0) whether or   *)
(* not eof() is true. A failed assertion ends the program: pc = "aborted".  *)
(* fields and reads record the calls made with num = 0 only.                *)

\* the stream lengths: none, one bit, around the finalizer's place, around a word
Goals == {0, 1, PAYLOAD_BITS - 1, PAYLOAD_BITS, PACK_WORD_BITS, PACK_WORD_BITS + 1}

\* the num arguments of write(bits, num) and read(num)
Counts == {0, 4}

\* the bits k .. k + num - 1 of the pattern as the low bits of a word
PatternWord(k, num) == {j \in 0 .. (num - 1) : PatternBit(k + j)}

InitMisuse ==
    /\ IdleFin /\ IdleChars /\ IdleBlocks
    /\ pc = "pack"
    /\ sink = NewPacker(TRUE)
    /\ src = NoUnpacker
    /\ fields = <<>>
    /\ reads = <<>>
    /\ flushes = <<>>
    /\ closePos = -1
    /\ pattern \in BitPatterns
    /\ goal \in Goals

\* sink.write(bits, num) with the next num bits of the pattern
WriteField(num) ==
    /\ pc = "pack"
    /\ num_bits_written(sink) + num <= goal
    /\ LET bits == PatternWord(num_bits_written(sink), num)
           r == write_call(sink, bits, num)
       IN  /\ sink' = r.p
           /\ pc' = IF r.failed THEN "aborted" ELSE pc
           /\ fields' = IF num = 0
                        THEN Append(fields, [kind |-> "bits", num |-> num, value |-> bits])
                        ELSE fields
    /\ UNCHANGED <<finVars, charVars, blockVars, src, reads, flushes, closePos, pattern, goal>>

\* src.read(), whatever eof() says
ReadAny(junk) ==
    /\ pc = "unpack"
    /\ src' = read_bit(src, junk)[1]
    /\ UNCHANGED <<finVars, charVars, blockVars, pc, sink, fields, reads, flushes, closePos, pattern, goal>>

\* src.read(num), whatever eof() says
ReadField(junk, num) ==
    /\ pc = "unpack"
    /\ LET r == read_call(src, num, junk)
       IN  /\ src' = r.u
           /\ pc' = IF r.failed THEN "aborted" ELSE pc
           /\ reads' = IF num = 0
                       THEN Append(reads, [kind |-> "bits", num |-> num, value |-> r.bits,
                                           eofBefore |-> eof(src), goodBefore |-> good(src)])
                       ELSE reads
    /\ UNCHANGED <<finVars, charVars, blockVars, sink, fields, flushes, closePos, pattern, goal>>

NextMisuse ==
    \/ WriteNext
    \/ \E num \in Counts : WriteField(num)
    \/ DestroyBits
    \/ \E junk \in Junk : Open(junk)
    \/ \E junk \in JunkFor(src) : ReadAny(junk)
    \/ \E junk \in JunkFor(src) : \E num \in Counts : ReadField(junk, num)

SpecMisuse == InitMisuse /\ [][NextMisuse]_vars

----------------------------------------------------------------------------
(* The character adapters: a CharPacker over a source of characters (a      *)
(* container's iterators or a stream's) is drained with *it++, the words    *)
(* are written through a CharUnpacker, and the emitted characters are       *)
(* packed again  (test/test.cpp, CharPacking)                               *)

\* the most characters of a source
MaxChars == 17

\* "tudocomp=awesome"
Text == <<116, 117, 100, 111, 99, 111, 109, 112, 61, 97, 119, 101, 115, 111, 109, 101>>

CharPatterns == {"text", "iota", "high"}

\* the k-th char of a pattern
CharAt(pat, k) ==
    CASE pat = "text" -> Text[((k - 1) % Len(Text)) + 1]
      [] pat = "iota" -> (k - 1) % 256
      [] pat = "high" -> 255 - ((k - 1) % 256)

Sources == {[k \in 1 .. n |-> CharAt(pat, k)] : pat \in CharPatterns, n \in 0 .. MaxChars}

\* what a char of undefined memory may hold
JunkChars == {0, 255}

\* the begin and end iterators of a source
Begin(source, kind) ==
    IF kind = "stream" THEN StreamInputIterator(source) ELSE range_iterator(source, 1)

End(source, kind) ==
    IF kind = "stream" THEN stream_end(source) ELSE range_iterator(source, Len(source) + 1)

\* what the next advance() of c may find in undefined memory: it reads
\* beyond a container's end when fewer than chars_per_int chars are left
JunkCharsFor(c) ==
    IF /\ c.in_.kind = "range"
       /\ c.in_.pos # Len(c.in_.source) + 1
       /\ c.in_.pos + chars_per_int > Len(c.in_.source) + 1
    THEN JunkChars ELSE {0}

InitChars ==
    /\ IdleCodec /\ IdleFin /\ IdleBlocks
    /\ endian \in {"little", "big"}
    /\ chars \in Sources
    /\ packer \in {CharPacker(Begin(chars, kind), End(chars, kind), endian, junk, junkc) :
                      kind \in {"range", "stream"}, junk \in Junk, junkc \in JunkChars}
    /\ taken = <<>>
    /\ emitted = <<>>
    /\ repacked = [done |-> FALSE, words |-> <<>>]

\* has the packer met the end iterator CharPacker()
AtEnd == char_packer_eq(packer, CharPackerEnd(packer.in_))

\* v.push_back(*it++), one turn of std::copy(it, {}, std::back_inserter(v))
Take(junkc) ==
    /\ ~AtEnd
    /\ packer.in_.over < chars_per_int
    /\ LET r == char_packer_post_inc(packer, endian, junkc)
       IN  /\ packer' = r[1]
           /\ taken' = Append(taken, r[2])
    /\ UNCHANGED <<codecVars, finVars, blockVars, endian, chars, emitted, repacked>>

\* *out++ = v[k] on a CharUnpacker(std::back_inserter(s)), k the next word
Put ==
    /\ Len(emitted) < chars_per_int * Len(taken)
    /\ emitted' = char_unpacker_inc(emitted, taken[(Len(emitted) \div chars_per_int) + 1], endian)
    /\ UNCHANGED <<codecVars, finVars, blockVars, endian, chars, packer, taken, repacked>>

\* std::copy(CharPacker(s.begin(), s.end()), {}, std::back_inserter(v)) over
\* the emitted characters, once every word was taken and written
Repack(junk) ==
    /\ ~repacked.done
    /\ AtEnd \/ packer.in_.over >= chars_per_int
    /\ Len(emitted) = chars_per_int * Len(taken)
    /\ LET c == CharPacker(Begin(emitted, "range"), End(emitted, "range"), endian, junk, 0)
       IN  repacked' = [done |-> TRUE, words |-> copy_words(c, endian, 0)]
    /\ UNCHANGED <<codecVars, finVars, blockVars, endian, chars, packer, taken, emitted>>

NextChars ==
    \/ \E junkc \in JunkCharsFor(packer) : Take(junkc)
    \/ Put
    \/ \E junk \in Junk : Repack(junk)

SpecChars == InitChars /\ [][NextChars]_vars

----------------------------------------------------------------------------
(* Through characters: the harness of Spec with the packer writing through  *)
(* a CharUnpacker, bitwise_output_to(out), and the unpacker reading the     *)
(* characters through a CharPacker, bitwise_input_from(begin, end)          *)
(* (test/test.cpp, bitwise_file_io)                                         *)

\* the most write and flush calls made on a packer whose output is read
\* back through characters
MaxByteCalls == 3

\* auto src = bitwise_input_from(begin, end) over the chars written, on a
\* host of endianness e, begin and end being iterators of the given kind
OpenBytes(junk, e, kind) ==
    /\ pc = "closed"
    /\ Calls <= MaxByteCalls
    /\ LET s == unpack_words(<<>>, sink.out_, e)
       IN  /\ emitted' = s
           /\ src' = bitwise_input_from(Begin(s, kind), End(s, kind), e, junk, 0)
    /\ pc' = "unpack"
    /\ UNCHANGED <<finVars, blockVars, sink, fields, reads, flushes, closePos, pattern, goal,
                   endian, chars, packer, taken, repacked>>

NextBytes ==
    \/ \E bit \in BOOLEAN : WriteBit(bit)
    \/ \E num \in Widths : \E bits \in ValuesFor(num) : WriteBits(bits, num)
    \/ Flush
    \/ Destroy
    \/ \E junk \in Junk : \E e \in {"little", "big"} : \E kind \in {"range", "stream"} :
          OpenBytes(junk, e, kind)
    \/ \E junk \in JunkFor(src) : ReadBit(junk)
    \/ \E junk \in JunkFor(src) : ReadBits(junk)

SpecBytes == Init /\ [][NextBytes]_vars

----------------------------------------------------------------------------
(* Without an end: a BitUnpacker built from a word source alone, over an    *)
(* array of words, BitUnpacker(data), or over a stream holding the words as *)
(* characters, bitwise_input_from(in), reads the bits of the words          *)
(* (test/test.cpp, BitUnpacker)                                             *)

\* the words of a source
SourceWords == {{}, PACK_WORD_MAX, Nibbles, Or({0}, encode_finalizer(1))}

\* the word sources: one or two words
WordSources == {<<w>> : w \in SourceWords} \cup {<<v, w>> : v, w \in SourceWords}

InitUnsized ==
    /\ IdleFin /\ IdleBlocks
    /\ pc = "closed"
    /\ sink = NewPacker(FALSE)
    /\ src = NoUnpacker
    /\ fields = <<>>
    /\ reads = <<>>
    /\ flushes = <<>>
    /\ closePos = -1
    /\ pattern = {}
    /\ goal = 0
    /\ endian \in {"little", "big"}
    /\ taken \in WordSources
    /\ chars = unpack_words(<<>>, taken, endian)
    /\ packer = <<>>
    /\ emitted = <<>>
    /\ repacked = [done |-> FALSE, words |-> <<>>]

\* auto src = BitUnpacker(data) over the array of the words
OpenArray(junk) ==
    /\ pc = "closed"
    /\ src' = BitUnpacker(taken, 1, 0, junk)
    /\ pc' = "unpack"
    /\ UNCHANGED <<finVars, charVars, blockVars, sink, fields, reads, flushes, closePos, pattern, goal>>

\* auto src = bitwise_input_from(in) over the stream of the characters
OpenStream(junk) ==
    /\ pc = "closed"
    /\ src' = bitwise_input_from_stream(chars, endian, junk, 0)
    /\ pc' = "unpack"
    /\ UNCHANGED <<finVars, charVars, blockVars, sink, fields, reads, flushes, closePos, pattern, goal>>

\* src.read() while bits of the words are left
ReadWithin(junk) ==
    /\ pc = "unpack"
    /\ Len(reads) < PACK_WORD_BITS * Len(taken)
    /\ LET r == read_bit(src, junk)
       IN  /\ src' = r[1]
           /\ reads' = Append(reads, [kind |-> "bit", num |-> 1,
                                      value |-> IF r[2] THEN {0} ELSE {},
                                      eofBefore |-> eof(src),
                                      goodBefore |-> good(src)])
    /\ UNCHANGED <<finVars, charVars, blockVars, pc, sink, fields, flushes, closePos, pattern, goal>>

NextUnsized ==
    \/ \E junk \in Junk : OpenArray(junk)
    \/ \E junk \in Junk : OpenStream(junk)
    \/ \E junk \in JunkFor(src) : ReadWithin(junk)

SpecUnsized == InitUnsized /\ [][NextUnsized]_vars

----------------------------------------------------------------------------
(* The finalizer codec on its own: a payload is or-ed with                  *)
(* encode_finalizer(count) as the destructor does, and the word is given to *)
(* decode_finalizer; or any word is given to decode_finalizer               *)

\* the bits below the finalizer
PayloadIdx == 0 .. (FINALIZER_LSH - 1)

\* payloads: none, the lowest bit, the highest bit, 0b1011 repeated, all bits
Payloads == {{}, {0}, {FINALIZER_LSH - 1}, And(Nibbles, PayloadIdx), PayloadIdx}

\* every content of the bits from the finalizer's place up, over each payload
GivenWords == {Or(p, top) : p \in Payloads, top \in SUBSET (BitIdx \ PayloadIdx)}

InitFin ==
    /\ IdleCodec /\ IdleChars /\ IdleBlocks
    /\ decoded = 0
    /\ \/ fstep = "payload" /\ count \in 0 .. PACK_WORD_BITS /\ word \in Payloads
       \/ fstep = "given" /\ count = -1 /\ word \in GivenWords

\* pack_ |= encode_finalizer(i_)
Encode ==
    /\ fstep = "payload"
    /\ word' = Or(word, encode_finalizer(count))
    /\ fstep' = "packed"
    /\ UNCHANGED <<codecVars, charVars, blockVars, count, decoded>>

\* decode_finalizer(pack_)
Decode ==
    /\ fstep \in {"packed", "given"}
    /\ decoded' = decode_finalizer(word)
    /\ fstep' = "done"
    /\ UNCHANGED <<codecVars, charVars, blockVars, count, word>>

NextFin ==
    \/ Encode
    \/ Decode

SpecFin == InitFin /\ [][NextFin]_vars

----------------------------------------------------------------------------
(* file_input_stream.hpp: a FileInputStream over a file. `file` is the     *)
(* file's content and fd the position of the descriptor; gptr_ and egptr_  *)
(* are kept as distances from eback_, both 0 for the null pointers.        *)

\* std::char_traits<char>::eof()
EOF_TOKEN == -1

\* Char(x): the char holding the byte x
Char(x) == IF x >= 2 ^ (CharBits - 1) THEN x - 2 ^ CharBits ELSE x

\* FileInputStream(path, begin, end, bufsize)
FileInputStream(file, begin, end, bufsize) ==
    LET e == Min({end, Len(file)})
        b == Min({begin, e})
    IN  [file |-> file, fd |-> b, begin_ |-> b, end_ |-> e,
         bufsize_ |-> bufsize, buffer_ |-> [i \in 1 .. bufsize |-> 0],
         foffs_ |-> 0, eof_ |-> FALSE, gptr_ |-> 0, egptr_ |-> 0,
         gcount_ |-> 0]

view_size(f) == f.end_ - f.begin_

\* ::read(fd_, buffer, readnum): the bytes delivered, and the stream after
read_immediate(f, readnum) ==
    LET n == Max({0, Min({readnum, Len(f.file) - f.fd})})
    IN  [f |-> [f EXCEPT !.fd = @ + n],
         got |-> SubSeq(f.file, f.fd + 1, f.fd + n)]

\* faulty variant of underflow: the buffer is filled beyond the view's end
underflow_beyond(f) ==
    LET f1 == [f EXCEPT !.foffs_ = @ + f.egptr_]
    IN  IF f1.foffs_ < view_size(f1)
        THEN LET readnum == f1.bufsize_
                 r == read_immediate(f1, readnum)
                 num_read == Len(r.got)
             IN  IF num_read > 0
                 THEN [f |-> [r.f EXCEPT
                                !.buffer_ = r.got \o SubSeq(@, num_read + 1, Len(@)),
                                !.gptr_ = 0,
                                !.egptr_ = num_read],
                       x |-> r.got[1]]
                 ELSE [f |-> r.f, x |-> EOF_TOKEN]
        ELSE [f |-> f1, x |-> EOF_TOKEN]

\* underflow(): the value returned, and the stream after
underflow(f) ==
    LET f1 == [f EXCEPT !.foffs_ = @ + f.egptr_]
    IN  IF f1.foffs_ < view_size(f1)
        THEN LET readnum == Min({f1.bufsize_, view_size(f1) - f1.foffs_})
                 r == read_immediate(f1, readnum)
                 num_read == Len(r.got)
             IN  IF num_read > 0
                 THEN [f |-> [r.f EXCEPT
                                !.buffer_ = r.got \o SubSeq(@, num_read + 1, Len(@)),
                                !.gptr_ = 0,
                                !.egptr_ = num_read],
                       x |-> r.got[1]]
                 ELSE [f |-> r.f, x |-> EOF_TOKEN]
        ELSE [f |-> f1, x |-> EOF_TOKEN]

\* get(): the value returned, and the stream after
file_get(f) ==
    IF f.gptr_ < f.egptr_
    THEN [f |-> [f EXCEPT !.gcount_ = 1, !.gptr_ = @ + 1],
          x |-> f.buffer_[f.gptr_ + 1]]
    ELSE LET u == underflow(f)
         IN  IF u.x # EOF_TOKEN
             THEN [f |-> [u.f EXCEPT !.eof_ = FALSE, !.gcount_ = 1, !.gptr_ = @ + 1],
                   x |-> u.f.buffer_[u.f.gptr_ + 1]]
             ELSE [f |-> [u.f EXCEPT !.eof_ = TRUE, !.gcount_ = 0],
                   x |-> u.x]

\* read(outp, num): the chars stored from outp on, and the stream after
file_read(f, num) ==
    LET num_good == f.egptr_ - f.gptr_
        copied == SubSeq(f.buffer_, f.gptr_ + 1, f.gptr_ + Min({num, num_good}))
    IN  IF num <= num_good
        THEN [f |-> [f EXCEPT !.gptr_ = @ + num, !.gcount_ = num],
              got |-> [i \in 1 .. Len(copied) |-> Char(copied[i])]]
        ELSE LET remaining == num - num_good
                 r == read_immediate(f, remaining)
                 n == num_good + Len(r.got)
             IN  [f |-> [r.f EXCEPT !.gcount_ = n,
                                    !.foffs_ = @ + remaining,
                                    !.eof_ = n < num,
                                    !.gptr_ = 0,
                                    !.egptr_ = 0],
                  got |-> [i \in 1 .. n |-> Char((copied \o r.got)[i])]]

\* good()
file_good(f) == ~f.eof_

\* fpos(), which is tellg()
fpos(f) == f.foffs_ + f.gptr_

tellg(f) == fpos(f)

\* invalidate_buffer()
invalidate_buffer(f) == [f EXCEPT !.gptr_ = 0, !.egptr_ = 0, !.gcount_ = 0, !.eof_ = FALSE]

\* seekoff(off, dir), which is seekg(off, dir): the stream after
seekoff(f, off, dir) ==
    LET new_foffs == CASE dir = "beg" -> off
                       [] dir = "cur" -> fpos(f) + off
                       [] dir = "end" -> view_size(f) + off
    IN  IF new_foffs # f.foffs_
        THEN invalidate_buffer([f EXCEPT !.foffs_ = new_foffs,
                                         !.fd = f.begin_ + new_foffs])
        ELSE f

seekg(f, off, dir) == seekoff(f, off, dir)

\* FileInputStream()
FileInputStreamDefault ==
    invalidate_buffer([file |-> <<>>, fd |-> 0, begin_ |-> 0, end_ |-> 0,
                       bufsize_ |-> 0, buffer_ |-> <<>>, foffs_ |-> 0,
                       eof_ |-> TRUE, gptr_ |-> 0, egptr_ |-> 0, gcount_ |-> 0])

\* operator=(FileInputStream&& other) on the stream f
move_assign(f, other) ==
    [f EXCEPT !.end_ = other.end_,
              !.bufsize_ = other.bufsize_,
              !.buffer_ = other.buffer_,
              !.foffs_ = other.foffs_,
              !.eof_ = other.eof_,
              !.gptr_ = other.gptr_,
              !.egptr_ = other.egptr_,
              !.file = other.file,
              !.fd = other.fd]

\* FileInputStream(FileInputStream&& other)
FileInputStreamMoved(other) == move_assign(FileInputStreamDefault, other)

\* StreamInputIterator<FileInputStream>::end(stream)
file_end == [stream_invalid EXCEPT !.stream_ = "in", !.eof_ = TRUE]

\* faulty variant of advance: the end is told from the value get() returned,
\* once it is converted to a char
file_it_advance_by_value(it, f) ==
    LET g == file_get(f)
    IN  IF Char(g.x) = Char(EOF_TOKEN)
        THEN [it |-> [it EXCEPT !.eof_ = TRUE, !.current_ = 0], f |-> g.f]
        ELSE [it |-> [it EXCEPT !.eof_ = FALSE, !.current_ = Char(g.x)], f |-> g.f]

\* StreamInputIterator<FileInputStream>::advance(): the iterator and the
\* stream after
file_it_advance(it, f) ==
    LET g == file_get(f)
    IN  IF ~file_good(g.f)
        THEN [it |-> [it EXCEPT !.eof_ = TRUE, !.current_ = 0], f |-> g.f]
        ELSE [it |-> [it EXCEPT !.eof_ = FALSE, !.current_ = Char(g.x)], f |-> g.f]

\* begin(): StreamInputIterator<FileInputStream>(*this)
file_begin(f) == file_it_advance([stream_invalid EXCEPT !.stream_ = "in"], f)

----------------------------------------------------------------------------
(* file_output_stream.hpp: a FileOutputStream and the file behind its      *)
(* descriptor. pptr_ is kept as its distance from pbase_, epptr_ is        *)
(* bufsize_ away from it.                                                  *)

\* FileOutputStream(path, bufsize), the file truncated
FileOutputStream(bufsize) ==
    [bufsize_ |-> bufsize, buffer_ |-> [i \in 1 .. bufsize |-> 0],
     pptr_ |-> 0, foffs_ |-> 0, file |-> <<>>, fd_ |-> 0]

\* the loop of sync(): each ::write(fd_, buffer_.get(), wnum - num_written)
\* accepts up to accept bytes; the file after
RECURSIVE sync_loop(_, _, _, _)
sync_loop(o, file, num_written, accept) ==
    IF num_written < o.pptr_
    THEN LET w == Min({accept, o.pptr_ - num_written})
         IN  sync_loop(o, file \o SubSeq(o.buffer_, 1, w), num_written + w, accept)
    ELSE file

\* sync(): the stream after
sync(o, accept) ==
    IF o.fd_ >= 0
    THEN [o EXCEPT !.file = sync_loop(o, @, 0, accept),
                   !.foffs_ = @ + o.pptr_,
                   !.pptr_ = 0]
    ELSE [o EXCEPT !.pptr_ = 0]

\* put(c)
put(o, c, accept) ==
    LET s == IF o.pptr_ >= o.bufsize_ THEN sync(o, accept) ELSE o
    IN  [s EXCEPT !.buffer_[s.pptr_ + 1] = c, !.pptr_ = @ + 1]

\* write(inp, num), inp holding num chars
RECURSIVE write_chars(_, _, _)
write_chars(o, inp, accept) ==
    IF inp = <<>> THEN o
    ELSE IF o.pptr_ < o.bufsize_
         THEN write_chars([o EXCEPT !.buffer_[o.pptr_ + 1] = Head(inp), !.pptr_ = @ + 1],
                          Tail(inp), accept)
         ELSE write_chars(sync(o, accept), inp, accept)

\* ~FileOutputStream()
close_output(o, accept) == [sync(o, accept) EXCEPT !.fd_ = -1]

\* tellp()
tellp(o) == o.foffs_ + o.pptr_

----------------------------------------------------------------------------
(* util/overlapping_blocks.hpp: buffer_ holds overlap_ chars before        *)
(* cur_begin_ and block_size_ chars from it on; stream_ tells whether      *)
(* init has bound a stream.                                                *)

\* OverlappingBlocks(block_size, overlap)
OverlappingBlocks(block_size, overlap) ==
    [block_size_ |-> block_size, overlap_ |-> overlap,
     buffer_ |-> [i \in 1 .. block_size + overlap |-> 0],
     probe_ |-> EOF_TOKEN, cur_size_ |-> 0, cur_offs_ |-> 0, stream_ |-> FALSE]

first(b) == b.cur_offs_ = 0

\* faulty variant of last: a block is taken for the last when it is not full
last_short(b) == b.cur_size_ < b.block_size_

last(b) == b.probe_ = EOF_TOKEN

\* operator[](i), i in [-overlap_, block_size_)
At(b, i) == b.buffer_[b.overlap_ + i + 1]

\* the buffer with the chars cs stored from position `from` on
Fill(buf, from, cs) ==
    [i \in 1 .. Len(buf) |->
        IF i >= from /\ i < from + Len(cs) THEN cs[i - from + 1] ELSE buf[i]]

\* faulty variant of read_next: the probe is not stored as the block's first char
read_next_lost(b, f) ==
    LET r == IF first(b)
             THEN LET rd == file_read(f, b.block_size_)
                  IN  [f |-> rd.f,
                       buffer_ |-> Fill(b.buffer_, b.overlap_ + 1, rd.got),
                       cur_size_ |-> rd.f.gcount_]
             ELSE LET rd == file_read(f, b.block_size_ - 1)
                  IN  [f |-> rd.f,
                       buffer_ |-> Fill(b.buffer_, b.overlap_ + 2, rd.got),
                       cur_size_ |-> rd.f.gcount_ + 1]
        g == file_get(r.f)
    IN  [b |-> [b EXCEPT !.buffer_ = r.buffer_,
                         !.cur_size_ = r.cur_size_,
                         !.probe_ = g.x],
         f |-> g.f]

\* read_next(): the block reader and the stream after
read_next(b, f) ==
    LET r == IF first(b)
             THEN LET rd == file_read(f, b.block_size_)
                  IN  [f |-> rd.f,
                       buffer_ |-> Fill(b.buffer_, b.overlap_ + 1, rd.got),
                       cur_size_ |-> rd.f.gcount_]
             ELSE LET rd == file_read(f, b.block_size_ - 1)
                  IN  [f |-> rd.f,
                       buffer_ |-> Fill(b.buffer_, b.overlap_ + 1,
                                        <<Char(b.probe_)>> \o rd.got),
                       cur_size_ |-> rd.f.gcount_ + 1]
        g == file_get(r.f)
    IN  [b |-> [b EXCEPT !.buffer_ = r.buffer_,
                         !.cur_size_ = r.cur_size_,
                         !.probe_ = g.x],
         f |-> g.f]

\* init(stream)
blocks_init(b, f) ==
    read_next([b EXCEPT !.stream_ = TRUE,
                        !.buffer_ = [i \in 1 .. Len(@) |->
                                        IF i <= b.overlap_ THEN 0 ELSE @[i]],
                        !.cur_offs_ = 0],
              f)

\* the overlap region after the slide loop of advance(), which copies
\* buffer_[i] = cur_begin_[cur_size_ - overlap_ + i] for i = 0, 1, ... in turn
RECURSIVE slide(_, _, _)
slide(buf, b, i) ==
    IF i >= b.overlap_ THEN buf
    ELSE slide([buf EXCEPT ![i + 1] = buf[b.overlap_ + (b.cur_size_ - b.overlap_ + i) + 1]],
               b, i + 1)

\* faulty variant of advance: the overlap region is not slid
blocks_advance_unslid(b, f) ==
    IF last(b) THEN [b |-> b, f |-> f, ret |-> FALSE]
    ELSE LET r == read_next([b EXCEPT !.cur_offs_ = @ + b.cur_size_], f)
         IN  [b |-> r.b, f |-> r.f, ret |-> r.b.cur_size_ > 0]

\* advance(): the block reader and the stream after, and the value returned
blocks_advance(b, f) ==
    IF last(b) THEN [b |-> b, f |-> f, ret |-> FALSE]
    ELSE LET r == read_next([b EXCEPT !.buffer_ = slide(@, b, 0),
                                      !.cur_offs_ = @ + b.cur_size_],
                            f)
         IN  [b |-> r.b, f |-> r.f, ret |-> r.b.cur_size_ > 0]

----------------------------------------------------------------------------
(* Blocks of a file: an OverlappingBlocks(block_size, overlap) is bound to *)
(* a FileInputStream over a whole file and advanced block by block, as in  *)
(* example_overlapping_blocks (test/examples.cpp).                         *)

MaxBlock == 3

MaxOverlap == 3

BlockSizes == 0 .. MaxBlock

Overlaps == 0 .. MaxOverlap

\* buffer sizes of the stream
BufSizes == {1, 2, 5}

InitBlocks ==
    /\ IdleFin /\ IdleChars /\ IdleCodec /\ IdleStreams
    /\ \E file \in Sources, bufsize \in BufSizes :
          input = FileInputStream(file, 0, Len(file), bufsize)
    /\ \E block_size \in BlockSizes, overlap \in Overlaps :
          blocks = OverlappingBlocks(block_size, overlap)
    /\ fileop = NoCall

\* block.init(stream)
BlocksInit ==
    /\ ~blocks.stream_
    /\ LET r == blocks_init(blocks, input)
       IN  /\ blocks' = r.b
           /\ input' = r.f
    /\ UNCHANGED <<codecVars, finVars, charVars, streamVars, fileop>>

\* block.advance()
BlocksAdvance ==
    /\ blocks.stream_
    /\ LET r == blocks_advance(blocks, input)
       IN  /\ blocks' = r.b
           /\ input' = r.f
    /\ UNCHANGED <<codecVars, finVars, charVars, streamVars, fileop>>

NextBlocks ==
    \/ BlocksInit
    \/ BlocksAdvance

SpecBlocks == InitBlocks /\ [][NextBlocks]_vars

----------------------------------------------------------------------------
(* A FileInputStream over a view of a file, read with get() alone, as in   *)
(* ensure_iota and ensure_eof (test/test.hpp).                             *)

MaxFile == 6

MaxGets == 9

\* what the file holds
FilePatterns == {"iota", "high"}

Files == {[k \in 1 .. n |-> CharAt(pat, k)] : pat \in FilePatterns, n \in 0 .. MaxFile}

\* the begin and end arguments of the constructor
Positions == 0 .. (MaxFile + 1)

InitGets ==
    /\ IdleFin /\ IdleChars /\ IdleCodec /\ IdleStreams
    /\ \E file \in Files, begin \in Positions, end \in Positions, bufsize \in BufSizes :
          input = FileInputStream(file, begin, end, bufsize)
    /\ blocks = <<>>
    /\ fileop = NoCall

\* the view-relative index of the byte the next get() or read() delivers
\* first: the descriptor's position less the bytes still buffered
NextIndex(f) == (f.fd - f.begin_) - (f.egptr_ - f.gptr_)

\* in.get()
Get ==
    /\ fileop.calls < MaxGets
    /\ LET g == file_get(input)
       IN  /\ input' = g.f
           /\ fileop' = [NoCall EXCEPT !.op = "get",
                                       !.calls = fileop.calls + 1,
                                       !.used = fileop.used \cup {"get"},
                                       !.x = g.x,
                                       !.pre = NextIndex(input),
                                       !.was_good = file_good(input)]
    /\ UNCHANGED <<codecVars, finVars, charVars, streamVars, blocks>>

NextGets == Get

SpecGets == InitGets /\ [][NextGets]_vars

----------------------------------------------------------------------------
(* A FileInputStream over a view of a file under get(), read(), seekg()    *)
(* and a move into a new stream, in any order.                             *)

MaxFileCalls == 3

\* the views: the whole file, a prefix, a suffix and an inner range
Begins == {0, 2}

Ends == {4, MaxFile + 1}

\* the num arguments of read
ReadSizes == {0, 1, 3}

\* the off arguments of seekg
SeekOffs == {-3, -1, 0, 1, 3}

SeekDirs == {"beg", "cur", "end"}

InitFile ==
    /\ IdleFin /\ IdleChars /\ IdleCodec /\ IdleStreams
    /\ \E begin \in Begins, end \in Ends, bufsize \in BufSizes :
          input = FileInputStream([k \in 1 .. MaxFile |-> CharAt("high", k)],
                                  begin, end, bufsize)
    /\ blocks = <<>>
    /\ fileop = NoCall

\* the record of a call op made on the stream
Called(op) ==
    [NoCall EXCEPT !.op = op,
                   !.calls = fileop.calls + 1,
                   !.used = fileop.used \cup {op},
                   !.pre = NextIndex(input),
                   !.was_good = file_good(input)]

\* in.get()
FileGet ==
    /\ fileop.calls < MaxFileCalls
    /\ LET g == file_get(input)
       IN  /\ input' = g.f
           /\ fileop' = [Called("get") EXCEPT !.x = g.x]
    /\ UNCHANGED <<codecVars, finVars, charVars, streamVars, blocks>>

\* in.read(outp, num)
FileRead(num) ==
    /\ fileop.calls < MaxFileCalls
    /\ LET r == file_read(input, num)
       IN  /\ input' = r.f
           /\ fileop' = [Called("read") EXCEPT !.num = num, !.got = r.got]
    /\ UNCHANGED <<codecVars, finVars, charVars, streamVars, blocks>>

\* the position seekg(off, dir) is to reach
Target(f, off, dir) ==
    CASE dir = "beg" -> off
      [] dir = "cur" -> tellg(f) + off
      [] dir = "end" -> view_size(f) + off

\* in.seekg(off, dir) to a position of the view or to its end
FileSeek(off, dir) ==
    /\ fileop.calls < MaxFileCalls
    /\ Target(input, off, dir) \in 0 .. view_size(input)
    /\ input' = seekg(input, off, dir)
    /\ fileop' = [Called("seek") EXCEPT !.target = Target(input, off, dir)]
    /\ UNCHANGED <<codecVars, finVars, charVars, streamVars, blocks>>

\* FileInputStream moved(std::move(in)), and in = std::move(init) on a
\* default-constructed in; the calls that follow are made on the new stream
FileMove ==
    /\ fileop.calls < MaxFileCalls
    /\ input' = FileInputStreamMoved(input)
    /\ fileop' = Called("move")
    /\ UNCHANGED <<codecVars, finVars, charVars, streamVars, blocks>>

NextFile ==
    \/ FileGet
    \/ \E num \in ReadSizes : FileRead(num)
    \/ \E off \in SeekOffs, dir \in SeekDirs : FileSeek(off, dir)
    \/ FileMove

SpecFile == InitFile /\ [][NextFile]_vars

----------------------------------------------------------------------------
(* A FileOutputStream under put, write and flush, then destroyed           *)
(* (TEST_CASE FileOutputStream, test/test.cpp). The chars passed are those *)
(* of a fixed text, in turn.                                               *)

MaxPassed == 7

\* the most bytes one ::write call of the operating system accepts
Accepts == {1, 2, 5}

\* the num arguments of write
WriteSizes == {0, 1, 3}

\* the next n chars to pass
CharsToPass(n) == [k \in 1 .. n |-> CharAt("high", Len(passed) + k)]

InitOut ==
    /\ IdleFin /\ IdleChars /\ IdleCodec
    /\ input = <<>> /\ blocks = <<>> /\ fileop = NoCall
    /\ iter = <<>> /\ seen = <<>>
    /\ \E bufsize \in BufSizes : output = FileOutputStream(bufsize)
    /\ passed = <<>>

\* out.put(c)
PutOut(accept) ==
    /\ output.fd_ >= 0
    /\ Len(passed) < MaxPassed
    /\ output' = put(output, CharsToPass(1)[1], accept)
    /\ passed' = passed \o CharsToPass(1)
    /\ UNCHANGED <<codecVars, finVars, charVars, input, blocks, fileop, iter, seen>>

\* out.write(inp, num)
WriteOut(num, accept) ==
    /\ output.fd_ >= 0
    /\ Len(passed) + num <= MaxPassed
    /\ output' = write_chars(output, CharsToPass(num), accept)
    /\ passed' = passed \o CharsToPass(num)
    /\ UNCHANGED <<codecVars, finVars, charVars, input, blocks, fileop, iter, seen>>

\* out.flush()
FlushOut(accept) ==
    /\ output.fd_ >= 0
    /\ output' = sync(output, accept)
    /\ UNCHANGED <<codecVars, finVars, charVars, input, blocks, fileop, iter, seen, passed>>

\* out goes out of scope
DestroyOut(accept) ==
    /\ output.fd_ >= 0
    /\ output' = close_output(output, accept)
    /\ UNCHANGED <<codecVars, finVars, charVars, input, blocks, fileop, iter, seen, passed>>

NextOut ==
    \/ \E accept \in Accepts : PutOut(accept)
    \/ \E num \in WriteSizes, accept \in Accepts : WriteOut(num, accept)
    \/ \E accept \in Accepts : FlushOut(accept)
    \/ \E accept \in Accepts : DestroyOut(accept)

SpecOut == InitOut /\ [][NextOut]_vars

----------------------------------------------------------------------------
(* A StreamInputIterator over a FileInputStream: some get() calls set the  *)
(* stream's position, fin.begin() is iterated up to fin.end(), then the    *)
(* stream is reset and read again (TEST_CASE StreamInputIterator).         *)

InitIter ==
    /\ IdleFin /\ IdleChars /\ IdleCodec
    /\ \E file \in Files, begin \in Positions, end \in Positions, bufsize \in BufSizes :
          input = FileInputStream(file, begin, end, bufsize)
    /\ blocks = <<>>
    /\ fileop = NoCall
    /\ iter = stream_invalid
    /\ seen = [from |-> 0, chars |-> <<>>]
    /\ output = <<>>
    /\ passed = <<>>

\* fin.get() before the iteration
SkipGet ==
    /\ iter.stream_ = "null"
    /\ file_good(input)
    /\ input' = file_get(input).f
    /\ UNCHANGED <<codecVars, finVars, charVars, blocks, fileop, iter, seen, output, passed>>

\* auto in = fin.begin()
IterBegin ==
    /\ iter.stream_ = "null"
    /\ LET r == file_begin(input)
       IN  /\ iter' = r.it
           /\ input' = r.f
    /\ seen' = [from |-> NextIndex(input), chars |-> <<>>]
    /\ UNCHANGED <<codecVars, finVars, charVars, blocks, fileop, output, passed>>

\* c = *in; ++in;
ReadInc ==
    /\ iter.stream_ = "in"
    /\ ~iterator_eq(iter, file_end)
    /\ LET r == file_it_advance(iter, input)
       IN  /\ iter' = r.it
           /\ input' = r.f
    /\ seen' = [seen EXCEPT !.chars = Append(@, iter.current_)]
    /\ UNCHANGED <<codecVars, finVars, charVars, blocks, fileop, output, passed>>

\* c = *in++; the DeadEnd holds current_ as it was before advance()
PostInc ==
    /\ iter.stream_ = "in"
    /\ ~iterator_eq(iter, file_end)
    /\ LET dead_end == iter.current_
           r == file_it_advance(iter, input)
       IN  /\ iter' = r.it
           /\ input' = r.f
           /\ seen' = [seen EXCEPT !.chars = Append(@, dead_end)]
    /\ UNCHANGED <<codecVars, finVars, charVars, blocks, fileop, output, passed>>

\* fin.seekg(0, std::ios::beg); in = fin.begin();
IterReset ==
    /\ iter.stream_ = "in"
    /\ iterator_eq(iter, file_end)
    /\ LET r == file_begin(seekg(input, 0, "beg"))
       IN  /\ iter' = r.it
           /\ input' = r.f
    /\ seen' = [from |-> 0, chars |-> <<>>]
    /\ UNCHANGED <<codecVars, finVars, charVars, blocks, fileop, output, passed>>

NextIter ==
    \/ SkipGet
    \/ IterBegin
    \/ ReadInc
    \/ PostInc
    \/ IterReset

SpecIter == InitIter /\ [][NextIter]_vars

----------------------------------------------------------------------------
(* One write(value, count) on a packer that single-bit writes have brought *)
(* to any position, next to the same bits written one by one.              *)

MaxStart == 65

\* the values written: all ones, a mixed word, a single high bit, zero
WriteValues == {PACK_WORD_MAX, Nibbles, {PACK_WORD_BITS - 1}, {}}

\* sink.write(bit j of value) for j = lo, ..., num - 1 in turn
RECURSIVE write_singly(_, _, _, _)
write_singly(p, value, lo, num) ==
    IF lo >= num THEN p
    ELSE IF lo + 1 = num THEN write_bit(p, lo \in value)
    ELSE LET mid == (lo + num) \div 2
             h == write_singly(p, value, lo, mid)
         \* the first half is evaluated (its i_ is looked at) before the second
         \* half is begun, which keeps the evaluation shallow
         IN  CASE h.i_ < PACK_WORD_BITS -> write_singly(h, value, mid, num)

InitWrite ==
    /\ IdleFin /\ IdleChars /\ IdleBlocks
    /\ pc = "pack"
    /\ \E finalize \in BOOLEAN, n \in 0 .. MaxStart :
          sink = write_singly(NewPacker(finalize), Nibbles, 0, n)
    /\ src = NoUnpacker
    /\ fields = <<>>
    /\ reads = <<>>
    /\ flushes = <<>>
    /\ closePos = -1
    /\ pattern \in WriteValues
    /\ goal \in 1 .. PACK_WORD_BITS

\* sink.write(value, count)
WriteWhole ==
    /\ pc = "pack"
    /\ sink' = write(sink, pattern, goal)
    /\ pc' = "written"
    /\ UNCHANGED <<finVars, charVars, blockVars, src, fields, reads, flushes, closePos, pattern, goal>>

\* for(j = 0; j < count; j++) sink.write(bool(value >> j & 1))
WriteSingly ==
    /\ pc = "pack"
    /\ sink' = write_singly(sink, pattern, 0, goal)
    /\ pc' = "singly"
    /\ UNCHANGED <<finVars, charVars, blockVars, src, fields, reads, flushes, closePos, pattern, goal>>

NextWrite ==
    \/ WriteWhole
    \/ WriteSingly

SpecWrite == InitWrite /\ [][NextWrite]_vars

----------------------------------------------------------------------------
(* One read(count) on a sized unpacker that single-bit reads have brought  *)
(* to any position of a packed stream, next to count single-bit reads.     *)

MaxSkip == 65

\* the bits left in the stream after those read(count) takes
Slack == {0, 1, PACK_WORD_BITS}

\* the bit streams packed: bit k of the stream is set iff k is in the set
StreamPatterns == {{k \in 0 .. (4 * PACK_WORD_BITS) : k % 3 = 0},
                   {k \in 0 .. (4 * PACK_WORD_BITS) : k % 4 # 2}}

\* the bits lo, ..., num - 1 of a stream written with write(bits, num), a word
\* at a time
RECURSIVE write_words(_, _, _, _)
write_words(p, value, lo, num) ==
    IF lo >= num THEN p
    ELSE LET n == Min({PACK_WORD_BITS, num - lo})
         IN  write_words(write(p, {k - lo : k \in value \cap (lo .. (lo + n - 1))}, n),
                         value, lo + n, num)

\* for(j = lo; j < num; j++) bits |= PackWord(src.read()) << j:
\* <<unpacker, bits>> after it
RECURSIVE read_singly(_, _, _, _, _)
read_singly(u, bits, lo, num, junk) ==
    IF lo >= num THEN <<u, bits>>
    ELSE IF lo + 1 = num
    THEN LET r == read_bit(u, junk)
         IN  <<r[1], IF r[2] THEN Or(bits, set_bit(lo)) ELSE bits>>
    ELSE LET mid == (lo + num) \div 2
             h == read_singly(u, bits, lo, mid, junk)
         \* the first half is evaluated (its i_ is looked at) before the second
         \* half is begun, which keeps the evaluation shallow
         IN  CASE h[1].i_ > 0 -> read_singly(h[1], h[2], mid, num, junk)

\* the words of a finalizing packer destroyed after the first n bits of the
\* stream were written, under a sized unpacker that has read skip bits
InitRead ==
    /\ IdleFin /\ IdleChars /\ IdleBlocks
    /\ pc = "unpack"
    /\ pattern \in StreamPatterns
    /\ goal \in 1 .. PACK_WORD_BITS
    /\ \E skip \in 0 .. MaxSkip, slack \in Slack :
       \E junk \in IF skip = 0 THEN Junk ELSE {{}} :
          /\ sink = destroy(write_words(NewPacker(TRUE), pattern, 0, skip + goal + slack))
          /\ src = read_singly(BitUnpacker(sink.out_, 1, Len(sink.out_) + 1, junk),
                               {}, 0, skip, junk)[1]
    /\ fields = <<>>
    /\ reads = <<>>
    /\ flushes = <<>>
    /\ closePos = -1

\* src.read(count)
ReadWhole(junk) ==
    /\ pc = "unpack"
    /\ LET r == read(src, goal, junk)
       IN  /\ src' = r[1]
           /\ reads' = <<r[2]>>
    /\ pc' = "whole"
    /\ UNCHANGED <<finVars, charVars, blockVars, sink, fields, flushes, closePos, pattern, goal>>

\* count times src.read(), the j-th bit read becoming bit j
ReadSingly(junk) ==
    /\ pc = "unpack"
    /\ LET r == read_singly(src, {}, 0, goal, junk)
       IN  /\ src' = r[1]
           /\ reads' = <<r[2]>>
    /\ pc' = "singly"
    /\ UNCHANGED <<finVars, charVars, blockVars, sink, fields, flushes, closePos, pattern, goal>>

NextRead ==
    \/ \E junk \in JunkFor(src) : ReadWhole(junk)
    \/ \E junk \in JunkFor(src) : ReadSingly(junk)

SpecRead == InitRead /\ [][NextRead]_vars

----------------------------------------------------------------------------
(* Any words: a sized BitUnpacker over a sequence of words that no packer   *)
(* need have written, under read() and read(num) calls in any order,        *)
(* whether or not eof() is true. reads records the calls made.              *)

MaxReads == 4

\* the word sequences: none, one, two or three words
SizedSources ==
    {<<>>} \cup WordSources \cup {<<v, w, x>> : v, w, x \in {{}, PACK_WORD_MAX}}

InitSized ==
    /\ IdleFin /\ IdleBlocks
    /\ pc = "closed"
    /\ sink = NewPacker(FALSE)
    /\ src = NoUnpacker
    /\ fields = <<>>
    /\ reads = <<>>
    /\ flushes = <<>>
    /\ closePos = -1
    /\ pattern = {}
    /\ goal = 0
    /\ endian = "little"
    /\ taken \in SizedSources
    /\ chars = <<>>
    /\ packer = <<>>
    /\ emitted = <<>>
    /\ repacked = [done |-> FALSE, words |-> <<>>]

\* auto src = BitUnpacker(data.begin(), data.end())
OpenSized(junk) ==
    /\ pc = "closed"
    /\ src' = BitUnpacker(taken, 1, Len(taken) + 1, junk)
    /\ pc' = "unpack"
    /\ UNCHANGED <<finVars, charVars, blockVars, sink, fields, reads, flushes, closePos, pattern, goal>>

\* src.read(), whatever eof() says
ReadOne(junk) ==
    /\ pc = "unpack"
    /\ Len(reads) < MaxReads
    /\ src' = read_bit(src, junk)[1]
    /\ reads' = Append(reads, [kind |-> "bit", num |-> 1])
    /\ UNCHANGED <<finVars, charVars, blockVars, pc, sink, fields, flushes, closePos, pattern, goal>>

\* src.read(num), whatever eof() says
ReadMany(junk, num) ==
    /\ pc = "unpack"
    /\ Len(reads) < MaxReads
    /\ src' = read(src, num, junk)[1]
    /\ reads' = Append(reads, [kind |-> "bits", num |-> num])
    /\ UNCHANGED <<finVars, charVars, blockVars, pc, sink, fields, flushes, closePos, pattern, goal>>

NextSized ==
    \/ \E junk \in Junk : OpenSized(junk)
    \/ \E junk \in JunkFor(src) : ReadOne(junk)
    \/ \E junk \in JunkFor(src) : \E num \in Widths : ReadMany(junk, num)

SpecSized == InitSized /\ [][NextSized]_vars

----------------------------------------------------------------------------
(* Without a finalizer: goal bits of a pattern are written bit by bit to a  *)
(* BitPacker(out, false), which is then destroyed.                          *)

InitPlain ==
    /\ IdleFin /\ IdleChars /\ IdleBlocks
    /\ pc = "pack"
    /\ sink = NewPacker(FALSE)
    /\ src = NoUnpacker
    /\ fields = <<>>
    /\ reads = <<>>
    /\ flushes = <<>>
    /\ closePos = -1
    /\ pattern \in BitPatterns
    /\ goal \in 0 .. MaxBits

NextPlain ==
    \/ WriteNext
    \/ DestroyBits

SpecPlain == InitPlain /\ [][NextPlain]_vars

----------------------------------------------------------------------------
(* Properties *)

Last(q) == q[Len(q)]

\* the field's value has no bit set at or beyond its width
InWidth(f) == f.value \subseteq 0 .. (f.num - 1)

\* C1: round trip. When the fields were written to a finalizing packer that
\* was destroyed without an explicit flush, a sized unpacker reading with the
\* same widths in the same order returns every value that fits its width
\* unchanged, eof() is false before each of these reads and true right after
\* the last one.
C1_RoundTrip ==
    (pc = "unpack" /\ flushes = <<>>) =>
        /\ \A k \in 1 .. Len(reads) :
              /\ ~reads[k].eofBefore
              /\ reads[k].num = fields[k].num
              /\ InWidth(fields[k]) => reads[k].value = fields[k].value
        /\ (Len(reads) = Len(fields) /\ fields # <<>>) => eof(src)

\* three fields given with write(bits, num) that fill more than two words
\* were read back
C1_Witness ==
    /\ pc = "unpack"
    /\ flushes = <<>>
    /\ Len(fields) >= 3
    /\ Len(reads) = Len(fields)
    /\ \A k \in 1 .. Len(fields) : fields[k].kind = "bits" /\ InWidth(fields[k])
    /\ Len(sink.out_) >= 3
    /\ eof(src)

\* C2: bit by bit. The n >= 1 bits written with write(bit) come back in order
\* from read(); good() is true and eof() false before each of the n reads,
\* after the n-th read eof() is true and good() false, so that the loop
\* while(good()) read() makes exactly n reads; good() = ~eof() throughout.
C2_SingleBits ==
    pc = "unpack" =>
        /\ good(src) = ~eof(src)
        /\ goal >= 1 =>
              /\ Len(reads) <= goal
              /\ \A k \in 1 .. Len(reads) :
                    /\ reads[k].goodBefore
                    /\ ~reads[k].eofBefore
                    /\ reads[k].value = (IF PatternBit(k - 1) THEN {0} ELSE {})
              /\ Len(reads) < goal => (good(src) /\ ~eof(src))
              /\ Len(reads) = goal => (eof(src) /\ ~good(src))

\* all bits of a stream of one full word and a word filled up to the
\* finalizer's place were read
C2_Witness ==
    /\ pc = "unpack"
    /\ pattern = {1, 3, 4}
    /\ goal = PACK_WORD_BITS + PAYLOAD_BITS
    /\ Len(reads) = goal
    /\ eof(src)

\* every field written so far has all the bits of its width set
AllOnes == \A k \in 1 .. Len(fields) : (0 .. (fields[k].num - 1)) \subseteq fields[k].value

\* C3: finalizer boundaries, for a packer destroyed without an explicit
\* flush. PAYLOAD_BITS - 1 bits give one word whose finalizer decodes to
\* PAYLOAD_BITS - 1; PAYLOAD_BITS bits give two words, the second decoding to
\* PAYLOAD_BITS; PACK_WORD_BITS one-bits give two words, the first all ones,
\* the second decoding to PACK_WORD_BITS.
C3_Boundaries ==
    (pc # "pack" /\ flushes = <<>>) =>
        /\ num_bits_written(sink) = PAYLOAD_BITS - 1 =>
              /\ Len(sink.out_) = 1
              /\ decode_finalizer(sink.out_[1]) = PAYLOAD_BITS - 1
        /\ num_bits_written(sink) = PAYLOAD_BITS =>
              /\ Len(sink.out_) = 2
              /\ decode_finalizer(sink.out_[2]) = PAYLOAD_BITS
        /\ (num_bits_written(sink) = PACK_WORD_BITS /\ AllOnes) =>
              /\ Len(sink.out_) = 2
              /\ sink.out_[1] = PACK_WORD_MAX
              /\ decode_finalizer(sink.out_[2]) = PACK_WORD_BITS

\* a packer was destroyed after exactly PAYLOAD_BITS bits, written in two calls
C3_Witness ==
    /\ pc = "closed"
    /\ flushes = <<>>
    /\ Len(fields) = 2
    /\ num_bits_written(sink) = PAYLOAD_BITS
    /\ Len(sink.out_) = 2

\* C4: empty stream. A finalizing packer on which write was never called has
\* emitted no word when it is destroyed, however often flush() was called,
\* and a sized unpacker over no words reports eof() and not good() at once.
C4_Empty ==
    (pc # "pack" /\ fields = <<>>) =>
        /\ sink.out_ = <<>>
        /\ pc = "unpack" => (reads = <<>> /\ eof(src) /\ ~good(src))

\* an unpacker was opened on the output of a packer that was flushed twice
\* and never written to
C4_Witness ==
    /\ pc = "unpack"
    /\ fields = <<>>
    /\ Len(flushes) >= 2
    /\ eof(src)

\* the calls of examples.cpp, example_bitwise_io: write(0), write(1),
\* write(0b1011, 4)
Example ==
    << [kind |-> "bit", num |-> 1, value |-> {}],
       [kind |-> "bit", num |-> 1, value |-> {0}],
       [kind |-> "bits", num |-> 4, value |-> {0, 1, 3}] >>

\* C5 as stated: after the example's writes, an explicit flush() and the
\* packer's destruction exactly one word was emitted, and after read(),
\* read(), read(4) have returned 0, 1, 0b1011 eof() is true.
C5_Original ==
    (pc # "pack" /\ fields = Example /\ flushes = <<6>>) =>
        /\ Len(sink.out_) = 1
        /\ \A k \in 1 .. Len(reads) : reads[k].value = fields[k].value
        /\ Len(reads) = 3 => eof(src)

\* C5, amended: the example's writes followed by the packer's destruction
\* alone give exactly one word, the reads return 0, 1, 0b1011 and eof() is
\* then true. With an explicit flush() before the destruction two words are
\* emitted, the second holding only a finalizer that decodes to
\* PACK_WORD_BITS: the reads return the same values, and eof() is false after
\* them (the flushed word's padding counts as payload).
C5_Example ==
    (pc # "pack" /\ fields = Example /\ flushes \in {<<>>, <<6>>}) =>
        /\ Len(sink.out_) = (IF flushes = <<>> THEN 1 ELSE 2)
        /\ sink.out_[1] \cap (0 .. 5) = {1, 2, 3, 5}
        /\ flushes # <<>> =>
              /\ sink.out_[1] = {1, 2, 3, 5}
              /\ sink.out_[2] \cap (0 .. (FINALIZER_LSH - 1)) = {}
              /\ decode_finalizer(sink.out_[2]) = PACK_WORD_BITS
        /\ \A k \in 1 .. Len(reads) :
              reads[k].value = fields[k].value /\ ~reads[k].eofBefore
        /\ (pc = "unpack" /\ Len(reads) = 3) => (eof(src) <=> flushes = <<>>)

\* the example with the explicit flush() was written and read back
C5_Witness ==
    /\ pc = "unpack"
    /\ fields = Example
    /\ flushes = <<6>>
    /\ Len(reads) = 3
    /\ ~eof(src)

\* num_bits_written() when flush() was last called, 0 if it never was
LastFlush == IF flushes = <<>> THEN 0 ELSE Last(flushes)

\* C6 as stated: before finalization pack_pos() = num_bits_written() mod W,
\* after any sequence of write and flush calls.
C6_Original ==
    pc = "pack" => pack_pos(sink) = num_bits_written(sink) % PACK_WORD_BITS

\* C6, amended: before finalization pack_pos() is the number of bits written
\* since the last flush() call (since construction, if there was none)
\* modulo W; it is num_bits_written() mod W while flush() has not been called.
C6_PackPos ==
    pc = "pack" =>
        /\ pack_pos(sink) = (num_bits_written(sink) - LastFlush) % PACK_WORD_BITS
        /\ flushes = <<>> => pack_pos(sink) = num_bits_written(sink) % PACK_WORD_BITS

\* bits were written after a flush() that emitted a partly filled word
C6_Witness ==
    /\ pc = "pack"
    /\ flushes # <<>>
    /\ LastFlush % PACK_WORD_BITS # 0
    /\ num_bits_written(sink) > LastFlush
    /\ pack_pos(sink) # num_bits_written(sink) % PACK_WORD_BITS

C7_Step ==
    /\ fields' # fields =>
          num_bits_written(sink') = num_bits_written(sink) + Last(fields').num
    /\ flushes' # flushes => num_bits_written(sink') = num_bits_written(sink)
    /\ num_bits_written(sink') >= num_bits_written(sink)

\* C7: num_bits_written() starts at 0, grows by exactly 1 with every
\* write(bit) and by exactly count with every write(value, count), also when
\* the field spans two words, is left unchanged by flush(), and never
\* decreases.
C7_BitsWritten == num_bits_written(sink) = 0 /\ [][C7_Step]_vars

\* a field of a whole word was written across a word boundary
C7_Witness ==
    /\ pc = "pack"
    /\ Len(fields) = 2
    /\ fields[1].kind = "bit"
    /\ fields[2].num = PACK_WORD_BITS
    /\ num_bits_written(sink) = PACK_WORD_BITS + 1
    /\ Len(sink.out_) = 1

\* the bits of a field, lowest first
FieldBits(f) == [j \in 1 .. f.num |-> (j - 1) \in f.value]

RECURSIVE StreamOf(_)
\* the bits of a sequence of fields, in the order written
StreamOf(fs) ==
    IF fs = <<>> THEN <<>>
    ELSE StreamOf(SubSeq(fs, 1, Len(fs) - 1)) \o FieldBits(Last(fs))

\* the word holding the last n bits written, the earliest as bit 0
LastBits(n) ==
    LET stream == StreamOf(fields)
    IN  {j \in 0 .. (n - 1) : stream[Len(stream) - n + j + 1]}

C8_Step ==
    flushes' # flushes =>
        IF sink.i_ > 0
        THEN /\ sink'.out_ = Append(sink.out_, Last(sink'.out_))
             /\ Last(sink'.out_) \cap (sink.i_ .. (PACK_WORD_BITS - 1)) = {}
             /\ Last(sink'.out_) = LastBits(sink.i_)
             /\ sink'.i_ = 0
             /\ flush(sink') = sink'
        ELSE sink' = sink

\* C8: flush() with position > 0 emits exactly one word, whose bits at
\* indices >= position are 0 and whose lower bits are the bits written since
\* the last emission, and resets position to 0; with position = 0 it emits
\* nothing and changes nothing of the packer, so a second flush() in a row
\* changes nothing.
C8_Flush == [][C8_Step]_vars

\* flush() was called twice in a row on a partly filled word
C8_Witness ==
    /\ pc = "pack"
    /\ Len(flushes) = 2
    /\ flushes[1] = flushes[2]
    /\ flushes[1] % PACK_WORD_BITS # 0
    /\ Len(sink.out_) = 1
    /\ sink.out_[1] # {}

\* the packer was destroyed and has emitted a word
Finalized == pc # "pack" /\ sink.out_ # <<>>

\* the number of valid bits the finalizer stands for: the position at which
\* the destructor found the packer, PACK_WORD_BITS for position 0
ValidBits == IF closePos > 0 THEN closePos ELSE PACK_WORD_BITS

\* C9 as stated: the bits [W-F, W) of the last emitted word, read as an
\* integer, are (n-1) mod W, n the number of valid bits of the last payload
\* word.
C9_Original ==
    (Finalized /\ flushes = <<>>) =>
        ToNat(Shr(Last(sink.out_), PACK_WORD_BITS - FINALIZER_BITS))
            = (ValidBits - 1) % PACK_WORD_BITS

\* C9, amended: the finalizer's F bits are the bits [W-F-1, W-1) of the last
\* emitted word, one place below the top: read as an integer they are
\* (n-1) mod W, n in 1..W the number of valid bits of the stream's last
\* payload word, and the top bit W-1 is set exactly when n = W.
C9_Finalizer ==
    Finalized =>
        /\ ToNat(Shr(Last(sink.out_), FINALIZER_LSH) \cap (0 .. (FINALIZER_BITS - 1)))
              = (ValidBits - 1) % PACK_WORD_BITS
        /\ (PACK_WORD_BITS - 1) \in Last(sink.out_) <=> ValidBits = PACK_WORD_BITS
        /\ ValidBits \in 1 .. PACK_WORD_BITS
        /\ flushes = <<>> =>
              ValidBits = ((num_bits_written(sink) - 1) % PACK_WORD_BITS) + 1

\* a packer was destroyed with PAYLOAD_BITS - 1 bits in its second word
C9_Witness ==
    /\ pc = "closed"
    /\ flushes = <<>>
    /\ Len(sink.out_) >= 2
    /\ closePos = PAYLOAD_BITS - 1

\* (n - 1) << (W - F - 1)
EncodeCount(n) == Shl(ToWord(n - 1), FINALIZER_LSH)

\* C10 as stated: the value or-ed into the final word is
\* (n-1) << (W-F-1), n = i for position i > 0 and n = W for position 0; for
\* position 0 the extra final word is exactly (W-1) << (W-F-1).
C10_Original ==
    Finalized =>
        /\ Last(sink.out_) \cap (FINALIZER_LSH .. (PACK_WORD_BITS - 1))
              = EncodeCount(ValidBits)
        /\ closePos = 0 => Last(sink.out_) = EncodeCount(PACK_WORD_BITS)

\* C10, amended: the value or-ed into the final word is (i-1) << (W-F-1) for
\* position i > 0; for position 0 it is (2^W - 1) << (W-F-1) cut to W bits,
\* the word with exactly the bits [W-F-1, W) set, which is (2W-1) << (W-F-1)
\* and not (W-1) << (W-F-1); this is then the whole extra final word. In both
\* cases the final word decodes to n.
C10_Encoded ==
    Finalized =>
        LET value == IF closePos > 0 THEN EncodeCount(closePos)
                     ELSE EncodeCount(2 * PACK_WORD_BITS)
            payload == IF closePos < PAYLOAD_BITS THEN LastBits(closePos) ELSE {}
        IN  /\ Last(sink.out_) = Or(payload, value)
            /\ payload \cap value = {}
            /\ closePos = 0 =>
                  Last(sink.out_) = FINALIZER_LSH .. (PACK_WORD_BITS - 1)
            /\ decode_finalizer(Last(sink.out_)) = ValidBits

\* a packer was destroyed at position 0 after it had emitted a full word
C10_Witness ==
    /\ pc = "closed"
    /\ closePos = 0
    /\ num_bits_written(sink) = PACK_WORD_BITS
    /\ Len(sink.out_) = 2

\* C11: decode_finalizer is a left inverse of encode_finalizer. For every
\* count n in 1..PACK_WORD_BITS and every payload below the finalizer's
\* place, the word payload | encode_finalizer(n) decodes to n; the value
\* or-ed in for position 0 decodes to PACK_WORD_BITS; and every word decodes
\* to a number in 1..PACK_WORD_BITS.
C11_LeftInverse ==
    fstep = "done" =>
        /\ decoded \in 1 .. PACK_WORD_BITS
        /\ count \in 1 .. PACK_WORD_BITS => decoded = count
        /\ count = 0 => decoded = PACK_WORD_BITS

\* a full payload with the finalizer of a whole word was decoded
C11_Witness ==
    /\ fstep = "done"
    /\ count = PACK_WORD_BITS
    /\ PayloadIdx \subseteq word
    /\ decoded = PACK_WORD_BITS

\* C12 as stated: a read() or read(num) call on an unpacker whose eof() is
\* true fails an assertion: it leaves the unpacker as it was.
C12_Original == [][(pc = "unpack" /\ eof(src)) => src' = src]_vars

\* what a step with a call of write(bits, 0) or read(0) has to do
C13_Step ==
    /\ Len(fields') > Len(fields) => (pc' = "aborted" /\ sink' = sink)
    /\ Len(reads') > Len(reads) => (pc' = "aborted" /\ src' = src)

\* C13: a zero-length field is rejected. write(value, 0) and read(0) fail an
\* assertion before any state change: no word is emitted or fetched, the
\* position and num_bits_written() stay as they were.
C13_ZeroLength == [][C13_Step]_vars

\* read(0) was called on an unpacker about to fetch a word, after write(bits, 0)
\* was not called
C13_Witness ==
    /\ pc = "aborted"
    /\ Len(reads) = 1
    /\ src.i_ = PACK_WORD_BITS
    /\ ~src.final_

\* every word of the packer was taken and written through the unpacker
AllPut == AtEnd /\ Len(emitted) = chars_per_int * Len(taken)

\* C15: byte/word inverse law. Every word written through the CharUnpacker
\* gives chars_per_int chars; for a source whose length is a multiple of
\* chars_per_int, packing it and unpacking the words gives the source back;
\* and packing the emitted chars again gives the words back.
C15_Inverse ==
    /\ Len(emitted) % chars_per_int = 0
    /\ (AllPut /\ Len(chars) % chars_per_int = 0) => emitted = chars
    /\ repacked.done => repacked.words = taken

\* the two words of "tudocomp=awesome" went through both adapters and back
C15_Witness ==
    /\ chars = Text
    /\ AllPut
    /\ Len(taken) = 2
    /\ emitted = Text
    /\ repacked.done

\* the char that the bits [8 * (7 - j), 8 * (7 - j) + 8) of w hold, which
\* is the j-th char of w counted from its most significant one
CharOf(w, j) ==
    ToNat(extract_low(Shr(w, (chars_per_int - 1 - j) * CharBits), CharBits))

\* C16: fixed byte order. The k-th word of the CharPacker holds the source's
\* char k * chars_per_int as its most significant char and the chars after
\* it in falling significance, and the CharUnpacker emits a word's most
\* significant char first, on a little-endian and on a big-endian host alike.
C16_ByteOrder ==
    /\ \A k \in 1 .. Len(taken) : \A j \in 0 .. (chars_per_int - 1) :
          LET at == (k - 1) * chars_per_int + j + 1
          IN  at <= Len(chars) => CharOf(taken[k], j) = chars[at]
    /\ \A m \in 1 .. Len(emitted) :
          emitted[m] = CharOf(taken[((m - 1) \div chars_per_int) + 1],
                              (m - 1) % chars_per_int)

\* on a little-endian host the second word of a two-word source was taken
\* and written, its chars all different
C16_Witness ==
    /\ endian = "little"
    /\ Len(chars) = 2 * chars_per_int
    /\ chars[1] = 0
    /\ Len(taken) = 2
    /\ Len(emitted) = 2 * chars_per_int

\* C17 as stated: the packer gives no word for 1 to chars_per_int - 1
\* trailing chars: the words taken from a source of L chars are at most
\* floor(L / chars_per_int).
C17_Original == Len(taken) <= Len(chars) \div chars_per_int

\* C14 as stated: an unpacker built from a word source alone never marks the
\* stream final: over the reads within the words good() is true and eof()
\* false, and every bit of every word comes back as data.
C14_Original ==
    pc = "unpack" =>
        /\ ~src.final_
        /\ good(src)
        /\ ~eof(src)
        /\ \A k \in 1 .. Len(reads) :
              reads[k].value =
                  (IF ((k - 1) % PACK_WORD_BITS) \in taken[((k - 1) \div PACK_WORD_BITS) + 1]
                   THEN {0} ELSE {})

\* C18: round trip through characters. The sized unpacker of
\* bitwise_input_from(begin, end) over the characters that the packer of
\* bitwise_output_to(out) wrote finds the words the packer emitted, eight
\* characters each, and its end right after the last of them: every field
\* within its width is read back unchanged, eof() is false before each read
\* and, the packer having been destroyed without an explicit flush, true
\* after the last.
C18_ThroughBytes ==
    pc = "unpack" =>
        /\ Len(emitted) = chars_per_int * Len(sink.out_)
        /\ src.words = sink.out_
        /\ src.end_ = Len(sink.out_) + 1
        /\ ~src.ub
        /\ \A k \in 1 .. Len(reads) :
              /\ reads[k].num = fields[k].num
              /\ flushes = <<>> =>
                    /\ ~reads[k].eofBefore
                    /\ InWidth(fields[k]) => reads[k].value = fields[k].value
        /\ (Len(reads) = Len(fields) /\ fields # <<>> /\ flushes = <<>>) => eof(src)

\* three fields that fill more than two words were read back through 24 or
\* more characters
C18_Witness ==
    /\ pc = "unpack"
    /\ flushes = <<>>
    /\ Len(fields) >= 3
    /\ Len(reads) = Len(fields)
    /\ \A k \in 1 .. Len(fields) : fields[k].kind = "bits" /\ InWidth(fields[k])
    /\ Len(emitted) >= 3 * chars_per_int
    /\ eof(src)

\* the chars before the current block are those of the file before offset(),
\* and 0 before the file's start
Lookback(b, file) ==
    \A j \in 1 .. b.overlap_ :
        At(b, -j) = IF b.cur_offs_ >= j THEN Char(file[b.cur_offs_ - j + 1]) ELSE 0

\* C19: overlapping block lookback. With a block size of at least 1, in the
\* block loaded by init() and in every block loaded by advance(), the element
\* at index -j, j in 1..overlap, is the file's byte at position offset() - j
\* when offset() >= j and 0 otherwise; and when the block size is at least the
\* overlap, the indices [-overlap, 0) of a block loaded by advance() hold the
\* last overlap elements of the block before it.
C19_Step ==
    (blocks'.stream_ /\ blocks.block_size_ >= 1) =>
        /\ Lookback(blocks', input.file)
        /\ (blocks.stream_ /\ blocks'.cur_offs_ # blocks.cur_offs_
                /\ blocks.block_size_ >= blocks.overlap_) =>
              \A j \in 1 .. blocks.overlap_ :
                  At(blocks', -j) = At(blocks, blocks.cur_size_ - j)

C19_Lookback == [][C19_Step]_vars

\* a block after the first whose lookback is partly before the file's start
\* and partly in the file, and one whose lookback is whole
C19_Witness ==
    /\ blocks.stream_
    /\ blocks.block_size_ >= 1
    /\ blocks.overlap_ >= 2
    /\ blocks.cur_offs_ > 0
    /\ \/ blocks.cur_offs_ < blocks.overlap_
       \/ blocks.cur_offs_ >= 2 * blocks.block_size_ /\ blocks.block_size_ >= blocks.overlap_
    /\ At(blocks, -1) # 0

\* C20 as stated: advance() returns false exactly when last() was true before
\* the call, then leaving the block reader and the stream as they were; else
\* it returns true and the block it loaded is not empty.
C20_Step ==
    blocks.stream_ =>
        LET r == blocks_advance(blocks, input)
        IN  /\ r.ret = FALSE <=> last(blocks)
            /\ last(blocks) => (r.b = blocks /\ r.f = input)
            /\ ~last(blocks) => (r.ret = TRUE /\ r.b.cur_size_ > 0)

C20_Original == [][C20_Step]_vars

\* the number of bytes a stream never sought has handed out: those taken
\* from the file less those still buffered
Delivered(f) == (f.fd - f.begin_) - (f.egptr_ - f.gptr_)

\* C21: first() holds of the block loaded by init() and of no block loaded by
\* a successful advance(); of every such block last() holds exactly when the
\* file has no byte after the block, a file whose length is a multiple of the
\* block size and the empty file included; and the reader has then taken at
\* most one byte beyond the block from the stream.
C21_Step ==
    (blocks'.stream_ /\ (blocks.stream_ => blocks_advance(blocks, input).ret)) =>
        /\ first(blocks') <=> ~blocks.stream_
        /\ last(blocks') <=>
              blocks'.cur_offs_ + blocks'.cur_size_ >= Len(input.file)
        /\ Delivered(input') <= blocks'.cur_offs_ + blocks'.cur_size_ + 1

C22_Gets ==
    fileop.op = "get" =>
        LET i == fileop.calls - 1
        IN  IF i < view_size(input)
            THEN /\ fileop.was_good
                 /\ fileop.x = input.file[input.begin_ + i + 1]
            ELSE /\ fileop.x = EOF_TOKEN
                 /\ ~file_good(input)

\* the get() that first returns EOF, at the end of an inner view larger than
\* the read buffer
C22_Witness ==
    /\ fileop.op = "get"
    /\ fileop.x = EOF_TOKEN
    /\ fileop.calls = view_size(input) + 1
    /\ input.begin_ > 0
    /\ input.end_ < Len(input.file)
    /\ input.bufsize_ < view_size(input)

\* C23 as stated: after any sequence of get() and read() calls on a stream,
\* tellg() is the view-relative index of the byte delivered next.
C23_Original ==
    fileop.used \subseteq {"get", "read"} => tellg(input) = NextIndex(input)

\* C24 as stated: after seekg(off, dir) to a position p of the view, made
\* after any get(), read() and seekg() calls, good() is true, tellg() is p and
\* the next get() returns the view's byte at index p.
C24_Original ==
    (/\ fileop.op = "seek"
     /\ "move" \notin fileop.used
     /\ fileop.target < view_size(input)) =>
        /\ file_good(input)
        /\ tellg(input) = fileop.target
        /\ file_get(input).x = input.file[input.begin_ + fileop.target + 1]

\* C25 as stated: read(outp, num) stores the next min(num, r) bytes of the
\* view, r being the number of bytes left before the view's end; gcount() is
\* that number; good() is false afterwards exactly when r < num.
C25_Original ==
    (fileop.op = "read" /\ "move" \notin fileop.used) =>
        LET r == Max({0, view_size(input) - fileop.pre})
            n == Min({fileop.num, r})
        IN  /\ fileop.got = [k \in 1 .. n |-> Char(input.file[input.begin_ + fileop.pre + k])]
            /\ input.gcount_ = n
            /\ ~file_good(input) <=> r < fileop.num

\* the bytes the stream delivers to get() until it returns EOF, at most n
RECURSIVE Drain(_, _)
Drain(f, n) ==
    LET g == file_get(f)
    IN  IF n = 0 \/ g.x = EOF_TOKEN THEN <<>> ELSE <<g.x>> \o Drain(g.f, n - 1)

\* C26 as stated: the stream a FileInputStream is moved into has the same
\* view and the same tellg() and delivers the same remaining bytes, then EOF.
C26_Step ==
    fileop'.op = "move" =>
        /\ input'.begin_ = input.begin_
        /\ input'.end_ = input.end_
        /\ tellg(input') = tellg(input)
        /\ Drain(input', MaxFile + 1) = Drain(input, MaxFile + 1)

C26_Original == [][C26_Step]_vars

\* C27 as stated: tellp() is the number of chars passed to put and write so
\* far, and right after flush() or destruction, when the buffer is empty, the
\* file holds exactly the chars passed, in order, also when a ::write call
\* accepts only a part of the bytes offered.
C27_Original ==
    /\ tellp(output) = Len(passed)
    /\ output.pptr_ = 0 => output.file = passed

\* the chars of the view from the index seen.from on
Expected ==
    [k \in 1 .. (view_size(input) - seen.from) |->
        Char(input.file[input.begin_ + seen.from + k])]

\* C28: an iteration from begin() reads the bytes from the stream's position
\* to the view's end, each once and in order, with *in, ++in and with *in++;
\* the iterator equals end() exactly when the last of them was read, whatever
\* the bytes are.
C28_Iteration ==
    iter.stream_ = "in" =>
        /\ Len(seen.chars) <= Len(Expected)
        /\ \A k \in 1 .. Len(seen.chars) : seen.chars[k] = Expected[k]
        /\ iterator_eq(iter, file_end) <=> Len(seen.chars) = Len(Expected)
        /\ ~iterator_eq(iter, file_end) => iter.current_ = Expected[Len(seen.chars) + 1]

\* an iteration that began with the byte 0xFF, went through more chars than
\* the stream buffers and has reached end() before the file's end
C28_Witness ==
    /\ iter.stream_ = "in"
    /\ iterator_eq(iter, file_end)
    /\ input.end_ < Len(input.file)
    /\ Len(seen.chars) >= 3
    /\ seen.chars[1] = Char(255)
    /\ input.bufsize_ < Len(seen.chars)

\* C29 as stated: an iterator that has reached EOF equals the end iterator of
\* its stream and a default-constructed iterator.
C29_Original ==
    (iter.stream_ = "in" /\ iter.eof_) =>
        /\ iterator_eq(iter, file_end)
        /\ iterator_eq(iter, stream_invalid)

\* C30: from every packer state, write(value, count) with count in 1..W
\* leaves the packer as count single-bit writes of the bits 0, 1, ...,
\* count - 1 of value leave it: the same emitted words, word in progress,
\* position and num_bits_written().
C30_Step ==
    (pc = "pack" /\ pc' = "written") =>
        sink' = write_singly(sink, pattern, 0, goal)

C30_BitByBit == [][C30_Step]_vars

\* a write of a whole word of ones at a position other than 0, which spans two
\* words
C30_Witness ==
    /\ pc = "written"
    /\ goal = PACK_WORD_BITS
    /\ pattern = PACK_WORD_MAX
    /\ sink.i_ = PAYLOAD_BITS
    /\ Len(sink.out_) = 1

\* C31: read(count) with count in 1..W, on an unpacker with count bits left,
\* returns the value that count calls of read() give when the j-th bit read
\* becomes bit j, and leaves the unpacker as they leave it: same current word,
\* lookahead word, position, final flag and position in the word source; the
\* bits of the value at indices >= count are 0.
C31_Step ==
    (pc = "unpack" /\ pc' = "whole") =>
        /\ \E junk \in JunkFor(src) :
              <<src', reads'[1]>> = read_singly(src, {}, 0, goal, junk)
        /\ reads'[1] \subseteq 0 .. (goal - 1)

C31_BitByBit == [][C31_Step]_vars

\* a read of a whole word at a position other than 0, which takes the bits of
\* two words, some of them set
C31_Witness ==
    /\ pc = "whole"
    /\ goal = PACK_WORD_BITS
    /\ src.i_ = PAYLOAD_BITS
    /\ Len(sink.out_) >= 2
    /\ reads[1] \cap (0 .. 5) # {}
    /\ reads[1] \cap (6 .. 63) # {}

RECURSIVE NumBits(_)
\* the number of bits of a sequence of fields
NumBits(fs) == IF fs = <<>> THEN 0 ELSE NumBits(SubSeq(fs, 1, Len(fs) - 1)) + Last(fs).num

RECURSIVE SetBits(_)
\* the places, counted from 0, of the set bits in the stream of a sequence of
\* fields written in order, each field's lowest bit first
SetBits(fs) ==
    IF fs = <<>> THEN {}
    ELSE LET front == SubSeq(fs, 1, Len(fs) - 1)
             start == NumBits(front)
         IN  SetBits(front) \cup {start + b : b \in Last(fs).value \cap (0 .. (Last(fs).num - 1))}

\* the bits k * PACK_WORD_BITS, ... of a stream as a word
WordOf(stream, k) ==
    {s - k * PACK_WORD_BITS :
        s \in stream \cap ((k * PACK_WORD_BITS) .. (k * PACK_WORD_BITS + PACK_WORD_BITS - 1))}

\* the packer's position is below PACK_WORD_BITS, the word in progress has no
\* bit at or above the position and, when flush() was never called, the words
\* emitted are the full words of the bits written: as many as
\* num_bits_written() \div PACK_WORD_BITS, the k-th holding the bits
\* (k - 1) * PACK_WORD_BITS, ... of the stream
PackerInv ==
    /\ sink.i_ \in 0 .. (PACK_WORD_BITS - 1)
    /\ sink.pack_ \cap (sink.i_ .. (PACK_WORD_BITS - 1)) = {}
    /\ flushes = <<>> =>
          /\ Len(sink.out_) = num_bits_written(sink) \div PACK_WORD_BITS
          /\ \A k \in 1 .. Len(sink.out_) :
                sink.out_[k] = WordOf(SetBits(fields), k - 1)

C32_Step ==
    (pc = "pack" /\ pc' = "pack") =>
        /\ PackerInv'
        /\ fields' # fields => Len(sink'.out_) <= Len(sink.out_) + 1

\* C32: after every completed write or flush call on a living packer the
\* position is in 0..W-1 and every bit of the word in progress at an index >=
\* position is 0; if flush() was never called, the number of words emitted is
\* num_bits_written() \div W and word k holds the written bits k*W .. k*W+W-1;
\* a single write emits at most one word.
C32_Packer == [][C32_Step]_vars

\* two words were emitted without a flush, by writes that end at a word's
\* last bit and writes that span two words, and bits are in progress
C32_Witness ==
    /\ pc = "pack"
    /\ flushes = <<>>
    /\ Len(sink.out_) = 2
    /\ sink.out_[2] \notin {{}, PACK_WORD_MAX}
    /\ sink.i_ > 0
    /\ \E k \in 1 .. Len(fields) : fields[k].kind = "bit"

\* C33: a finalizing packer destroyed after n >= 1 bits, without an explicit
\* flush, has emitted n \div W + 1 words when n % W < W - F (n % W = 0
\* included) and n \div W + 2 words when n % W >= W - F; bit k % W of word
\* k \div W is the k-th bit written, for every k < n.
C33_Words ==
    (pc # "pack" /\ goal >= 1) =>
        /\ Len(sink.out_) = goal \div PACK_WORD_BITS
                            + (IF goal % PACK_WORD_BITS < PAYLOAD_BITS THEN 1 ELSE 2)
        /\ \A k \in 0 .. (goal - 1) :
              ((k % PACK_WORD_BITS) \in sink.out_[k \div PACK_WORD_BITS + 1]) = PatternBit(k)

\* a packer was destroyed with all ones up to the place of the finalizer in
\* its second word, and the finalizer went to a third word
C33_Witness ==
    /\ pc = "closed"
    /\ pattern = 0 .. 5
    /\ goal = PACK_WORD_BITS + PAYLOAD_BITS
    /\ Len(sink.out_) = 3
    /\ sink.out_[2] = 0 .. (PAYLOAD_BITS - 1)

\* the number, from 0, of the word that is current after m >= 1 bits were read
\* one by one: read() calls advance() at the bits 0, W, 2W, ... and only there
CurrentWord(m) == (m - 1) \div PACK_WORD_BITS

\* C34: over the words of a finalizing packer destroyed after n >= 1 bits, a
\* sized unpacker that has read m <= n bits holds word (m - 1) \div W as its
\* current word; whenever final_ is true, the current word is word
\* (n - 1) \div W and final_avail_ is ((n - 1) % W) + 1. So final_ is never
\* true while an earlier word is current, nor before the first read, and the
\* word after word (n - 1) \div W, which holds the finalizer alone, never
\* becomes the current word.
C34_Final ==
    (pc = "unpack" /\ goal >= 1) =>
        /\ Len(reads) <= goal
        /\ Len(reads) >= 1 =>
              /\ src.pack_ = sink.out_[CurrentWord(Len(reads)) + 1]
              /\ src.i_ = ((Len(reads) - 1) % PACK_WORD_BITS) + 1
              /\ src.in_ <= src.end_
        /\ src.final_ =>
              /\ Len(reads) >= 1
              /\ CurrentWord(Len(reads)) = (goal - 1) \div PACK_WORD_BITS
              /\ src.final_avail_ = ((goal - 1) % PACK_WORD_BITS) + 1

\* the unpacker is final on the second of three words, the third holding the
\* finalizer alone, before the last bits are read
C34_Witness ==
    /\ pc = "unpack"
    /\ goal = 2 * PACK_WORD_BITS
    /\ Len(sink.out_) = 3
    /\ Len(reads) = PACK_WORD_BITS + 1
    /\ src.final_
    /\ src.final_avail_ = PACK_WORD_BITS
    /\ src.next_ = sink.out_[3]

\* the sized unpacker has not taken a word from its source at the end marker,
\* in_ has not passed the end marker, and the words taken are at most those up
\* to the word after the one read last (before the first read: the first word)
LookaheadInv ==
    /\ ~src.ub
    /\ src.in_ <= src.end_
    /\ src.in_ - 1 <= (IF reads = <<>> THEN 1 ELSE CurrentWord(NumBits(reads)) + 2)

C35_Step ==
    pc' = "unpack" =>
        /\ LookaheadInv'
        /\ pc = "unpack" => src'.in_ - src.in_ <= 2

\* C35: a sized unpacker over any word sequence, under any read() and
\* read(count) calls with count <= W, made also when eof() is true, never
\* dereferences or increments the word source at the end marker; it has taken
\* at most one word beyond the word being read, and one read(count) takes at
\* most two words.
C35_Lookahead == [][C35_Step]_vars

\* both words of a source were taken and more bits were read than they hold
C35_Witness ==
    /\ pc = "unpack"
    /\ Len(taken) = 2
    /\ src.in_ = src.end_
    /\ eof(src)
    /\ NumBits(reads) > 2 * PACK_WORD_BITS + PAYLOAD_BITS

\* C36: a packer constructed with finalize = false and destroyed after n bits
\* (no explicit flush) has emitted (n + W - 1) \div W words that hold the
\* written bits and nothing else: for n % W > 0 the last word has no bit at an
\* index >= n % W, for n % W = 0 no word follows the full words, and for
\* n = 0 nothing is emitted.
C36_Plain ==
    (pc = "closed" /\ ~sink.finalize_) =>
        /\ Len(sink.out_) = (goal + PACK_WORD_BITS - 1) \div PACK_WORD_BITS
        /\ \A k \in 0 .. (goal - 1) :
              ((k % PACK_WORD_BITS) \in sink.out_[k \div PACK_WORD_BITS + 1]) = PatternBit(k)
        /\ goal % PACK_WORD_BITS > 0 =>
              Last(sink.out_) \cap ((goal % PACK_WORD_BITS) .. (PACK_WORD_BITS - 1)) = {}

\* a packer without finalizer was destroyed after a full word of ones and
\* bits up to the place a finalizer would take in the second word
C36_Witness ==
    /\ pc = "closed"
    /\ ~sink.finalize_
    /\ pattern = 0 .. 5
    /\ goal = PACK_WORD_BITS + PAYLOAD_BITS
    /\ Len(sink.out_) = 2
    /\ sink.out_[2] = 0 .. (PAYLOAD_BITS - 1)

\* C37: on the read side pack_pos() is the number of bits read so far modulo
\* W, after any read() and read(count) calls: 0 on a new unpacker and after
\* whole words, and the same before and after a read(W).
C37_ReadPos ==
    pc = "unpack" => unpacker_pack_pos(src) = NumBits(reads) % PACK_WORD_BITS

\* a read(W) was made at a position other than 0
C37_Witness ==
    /\ pc = "unpack"
    /\ Len(reads) = 2
    /\ reads[1].num = 4
    /\ reads[2].num = PACK_WORD_BITS
    /\ unpacker_pack_pos(src) = 4
    /\ Len(taken) = 2

\* the number of blocks of size B that L bytes make: at least one
BlockCount(L, B) == IF L = 0 THEN 1 ELSE (L + B - 1) \div B

\* C38: with a block size B >= 1 over a file of L bytes, the block loaded by
\* init() has offset 0 and a block loaded by an advance() that returned true
\* has the offset of the block before plus its size, that block having had
\* size B; every block's chars [0, size()) are the file's bytes from offset()
\* on; a block that is not the last has size B and bytes after it; the last
\* block, after which advance() returns false, ends where the file ends and is
\* block number max(1, ceil(L / B)). So the blocks in turn are the file, and
\* the probe byte is the first char of the next block, once.
C38_Step ==
    (blocks'.stream_ /\ blocks.block_size_ >= 1) =>
        LET r == blocks_advance(blocks, input)
            L == Len(input.file)
            B == blocks.block_size_
        IN  /\ ~blocks.stream_ => blocks'.cur_offs_ = 0
            /\ (blocks.stream_ /\ r.ret) =>
                  /\ blocks'.cur_offs_ = blocks.cur_offs_ + blocks.cur_size_
                  /\ blocks.cur_size_ = B
                  /\ blocks'.cur_size_ >= 1
            /\ (blocks.stream_ /\ ~r.ret) => (last(blocks) /\ blocks' = blocks)
            /\ blocks'.cur_size_ <= B
            /\ \A i \in 0 .. (blocks'.cur_size_ - 1) :
                  At(blocks', i) = Char(input.file[blocks'.cur_offs_ + i + 1])
            /\ blocks'.cur_offs_ % B = 0
            /\ ~last(blocks') =>
                  /\ blocks'.cur_size_ = B
                  /\ blocks'.cur_offs_ + B < L
            /\ last(blocks') =>
                  /\ blocks'.cur_offs_ + blocks'.cur_size_ = L
                  /\ blocks'.cur_offs_ \div B + 1 = BlockCount(L, B)

C38_Partition == [][C38_Step]_vars

\* the third block of a file, shorter than the block size and the last, whose
\* first char is the probe byte read after the second block
C38_Witness ==
    /\ blocks.stream_
    /\ blocks.block_size_ >= 2
    /\ blocks.cur_offs_ = 2 * blocks.block_size_
    /\ blocks.cur_size_ = 1
    /\ last(blocks)
    /\ At(blocks, 0) = Char(input.file[blocks.cur_offs_ + 1])
    /\ At(blocks, 0) # 0
    /\ Len(input.file) = blocks.cur_offs_ + 1

====
